---------------------------- MODULE Spec2Model ----------------------------
(***************************************************************************)
(* A model of the quasi-Newton drivers of scipy/optimize/optimize.py and   *)
(* scipy/optimize/naq.py: the Steihaug-CG trust-region subproblem solver   *)
(* (CG_Steinhaug_matFree, rootFinder), the trust-region drivers            *)
(* (_minimize_sr1, _minimize_sr1n, _minimize_mosr1) and the line-search    *)
(* drivers (_minimize_lbfgs, _minimize_naq).                               *)
(*                                                                         *)
(* Arithmetic.  The source computes in IEEE doubles.  The model computes   *)
(* in exact rational arithmetic: a number is a pair <<n, d>> in lowest     *)
(* terms with d > 0.  The one irrational operation the modelled code       *)
(* performs on a value it returns, np.sqrt in rootFinder, is carried       *)
(* symbolically (a value u + w*sqrt(rad)).  A run in which a value is      *)
(* irrational in any other place, or leaves the range of the arithmetic,   *)
(* is not followed.                                                        *)
(*                                                                         *)
(* The objective f and its gradient are external callables: every value    *)
(* they return is an input of the model, drawn from a small set.           *)
(***************************************************************************)
EXTENDS Integers, Sequences, FiniteSets, TLC

(***************************************************************************)
(* Exact rationals.  Numerators and denominators are kept within the range *)
(* of the checker's integers: an operation whose result would leave it     *)
(* yields OutOfRange, which every later operation passes on, and a run     *)
(* that meets it is not followed (its state gets pc = "outside").          *)
(***************************************************************************)
Abs(i) == IF i < 0 THEN -i ELSE i

RECURSIVE GCD(_, _)
GCD(a, b) == IF b = 0 THEN a ELSE GCD(b, a % b)

\* the rational n/d (d # 0) in lowest terms with a positive denominator
Rat(n, d) ==
    LET g == GCD(Abs(n), Abs(d))
        s == IF d < 0 THEN -1 ELSE 1
    IN  <<(s * n) \div g, (s * d) \div g>>

Zero == <<0, 1>>
One == <<1, 1>>
Two == <<2, 1>>
Half == <<1, 2>>

OutOfRange == <<0, 0>>
Num(a) == a[2] # 0
Lim == 10^9
\* a * b is within Lim
Fits(a, b) == a = 0 \/ b = 0 \/ Abs(a) <= Lim \div Abs(b)

RNeg(a) == <<-a[1], a[2]>>
RAdd(a, b) ==
    IF ~Num(a) \/ ~Num(b) THEN OutOfRange
    ELSE LET g == GCD(a[2], b[2])
         IN  IF Fits(a[1], b[2] \div g) /\ Fits(b[1], a[2] \div g) /\ Fits(a[2] \div g, b[2])
             THEN Rat(a[1] * (b[2] \div g) + b[1] * (a[2] \div g), (a[2] \div g) * b[2])
             ELSE OutOfRange
RSub(a, b) == RAdd(a, RNeg(b))
RMul(a, b) ==
    IF ~Num(a) \/ ~Num(b) THEN OutOfRange
    ELSE IF a[1] = 0 \/ b[1] = 0 THEN Zero
    ELSE LET g1 == GCD(Abs(a[1]), b[2])
             g2 == GCD(Abs(b[1]), a[2])
         IN  IF Fits(a[1] \div g1, b[1] \div g2) /\ Fits(a[2] \div g2, b[2] \div g1)
             THEN <<(a[1] \div g1) * (b[1] \div g2), (a[2] \div g2) * (b[2] \div g1)>>
             ELSE OutOfRange
\* a / b for b # 0
RDiv(a, b) == IF ~Num(b) \/ b[1] = 0 THEN OutOfRange ELSE RMul(a, Rat(b[2], b[1]))
RSign(a) == IF a[1] > 0 THEN 1 ELSE IF a[1] < 0 THEN -1 ELSE 0
\* the sign of a - b, found as Euclid's algorithm finds it (no product formed)
RECURSIVE RCmp(_, _)
RCmp(a, b) ==
    LET fa == a[1] \div a[2]
        fb == b[1] \div b[2]
        ra == a[1] % a[2]
        rb == b[1] % b[2]
    IN  IF fa < fb THEN -1
        ELSE IF fa > fb THEN 1
        ELSE IF ra = 0 THEN (IF rb = 0 THEN 0 ELSE -1)
        ELSE IF rb = 0 THEN 1
        ELSE RCmp(<<b[2], rb>>, <<a[2], ra>>)
RLt(a, b) == RCmp(a, b) < 0
RLe(a, b) == RCmp(a, b) <= 0
RAbs(a) == <<Abs(a[1]), a[2]>>
RSq(a) == RMul(a, a)

(***************************************************************************)
(* Vectors: sequences of rationals                                         *)
(***************************************************************************)
\* the sequence <<F(1), ..., F(n)>>
RECURSIVE Tabulate(_, _)
Tabulate(F(_), n) == IF n = 0 THEN <<>> ELSE Append(Tabulate(F, n - 1), F(n))

RECURSIVE SumSeq(_)
SumSeq(s) == IF s = <<>> THEN Zero ELSE RAdd(Head(s), SumSeq(Tail(s)))

VAdd(u, v) == Tabulate(LAMBDA i : RAdd(u[i], v[i]), Len(u))
VSub(u, v) == Tabulate(LAMBDA i : RSub(u[i], v[i]), Len(u))
VScale(c, v) == Tabulate(LAMBDA i : RMul(c, v[i]), Len(v))
VNeg(v) == Tabulate(LAMBDA i : RNeg(v[i]), Len(v))
Dot(u, v) == SumSeq(Tabulate(LAMBDA i : RMul(u[i], v[i]), Len(u)))
NormSq(v) == Dot(v, v)
VZero(n) == Tabulate(LAMBDA i : Zero, n)
VNum(v) == \A i \in DOMAIN v : Num(v[i])


(***************************************************************************)
(* Small positive thresholds.  1e-10 and 1e-12 have no 32-bit numerator    *)
(* and denominator, so a threshold is carried as m * 10^-e (m a positive   *)
(* rational, e a natural) and compared without forming 10^e.               *)
(***************************************************************************)
RECURSIVE DivPow10(_, _)
DivPow10(n, e) == IF e = 0 \/ n = 0 THEN n ELSE DivPow10(n \div 10, e - 1)

Thresh(m, e) == [m |-> m, e |-> e]
\* x < t.m * 10^-t.e
LtThresh(x, t) ==
    IF t.e = 0 THEN RLt(x, t.m)
    ELSE LET q == RDiv(x, t.m)
         IN  q[1] <= 0 \/ q[1] <= DivPow10(q[2] - 1, t.e)
ThreshSq(t) == Thresh(RSq(t.m), 2 * t.e)

(***************************************************************************)
(* Values u + w*sqrt(rad), for the root rootFinder returns                 *)
(***************************************************************************)
RECURSIVE ISqrtB(_, _, _)
ISqrtB(n, lo, hi) ==
    IF lo >= hi THEN lo
    ELSE LET mid == (lo + hi + 1) \div 2
         IN  IF mid * mid <= n THEN ISqrtB(n, mid, hi) ELSE ISqrtB(n, lo, mid - 1)
ISqrt(n) == ISqrtB(n, 0, IF n < 46340 THEN n ELSE 46340)
IsSquare(n) == ISqrt(n) * ISqrt(n) = n

\* u + w*sqrt(rad), rad >= 0, with the square root taken when it is rational
Surd(u, w, rad) ==
    IF w = Zero \/ rad = Zero THEN [u |-> u, w |-> Zero, rad |-> Zero]
    ELSE IF IsSquare(rad[1]) /\ IsSquare(rad[2])
         THEN [u |-> RAdd(u, RMul(w, Rat(ISqrt(rad[1]), ISqrt(rad[2])))),
               w |-> Zero, rad |-> Zero]
         ELSE [u |-> u, w |-> w, rad |-> rad]

SurdNum(q) == Num(q.u) /\ Num(q.w) /\ Num(q.rad)
\* the numbers SurdGe0(q) compares are within range
SurdCmpNum(q) == SurdNum(q) /\ (q.w # Zero => Num(RSq(RDiv(q.u, q.w))))
\* u + w*sqrt(rad) >= 0
SurdGe0(q) ==
    IF q.w = Zero THEN RLe(Zero, q.u)
    ELSE IF RLe(Zero, q.u) /\ RLe(Zero, q.w) THEN TRUE
    ELSE IF RLt(q.u, Zero) /\ RLt(q.w, Zero) THEN FALSE
    ELSE IF RLt(q.w, Zero) THEN RLe(q.rad, RSq(RDiv(q.u, q.w)))
    ELSE RLe(RSq(RDiv(q.u, q.w)), q.rad)

\* a vector of such values on one radicand: rat + coef*sqrt(rad)
SurdVec(rat, coef, rad) ==
    IF \A i \in DOMAIN coef : coef[i] = Zero
    THEN [rat |-> rat, coef |-> coef, rad |-> Zero]
    ELSE [rat |-> rat, coef |-> coef, rad |-> rad]
RatVec(v) == SurdVec(v, [i \in DOMAIN v |-> Zero], Zero)
\* ||p||^2 of a SurdVec, itself a value u + w*sqrt(rad)
SurdNormSq(p) ==
    Surd(RAdd(NormSq(p.rat), RMul(p.rad, NormSq(p.coef))),
         RMul(Two, Dot(p.rat, p.coef)), p.rad)
\* q >= 0 (and the numbers compared are within range)
SurdNonNeg(q) == SurdCmpNum(q) /\ SurdGe0(q)
\* c - q
SurdFrom(c, q) == [u |-> RSub(c, q.u), w |-> RNeg(q.w), rad |-> q.rad]
\* ||p||^2 <= c
SurdNormSqLe(p, c) == SurdNonNeg(SurdFrom(c, SurdNormSq(p)))

(***************************************************************************)
(* rootFinder(a, b, c): optimize.py 3227-3248.  Returns the root, or None  *)
(* (after printing) when there is no non-negative one.                     *)
(***************************************************************************)
NoRoot == [kind |-> "None", x |-> Surd(Zero, Zero, Zero)]
Root(x) == [kind |-> "root", x |-> x]
PosInf == [kind |-> "inf", x |-> Surd(Zero, Zero, Zero)]
Outside == [kind |-> "outside", x |-> Surd(Zero, Zero, Zero)]

\* "if x >= 0: return x", else the print and None
NonNegRoot(x) ==
    IF ~SurdCmpNum(x) THEN Outside
    ELSE IF SurdGe0(x) THEN Root(x) ELSE NoRoot

\* the branches on r = b^2 - 4ac, with twoa = 2a
RootOf(a, b, r, twoa) ==
    IF ~Num(r) THEN Outside
    ELSE IF RSign(r) > 0
    THEN IF RSign(a) = 0
         \* (-b +- sqrt(r)) / 0.0 on numpy values: x1, x2 are nan or +-inf,
         \* max(x1, x2) is x1 unless x2 > x1
         THEN IF RSign(b) < 0 THEN PosInf ELSE NoRoot
         \* x = max(x1, x2); x2 > x1 exactly when -2*sqrt(r)/(2a) > 0, i.e. a < 0
         ELSE NonNegRoot(IF RSign(a) < 0
                         THEN Surd(RDiv(RNeg(b), twoa), RNeg(RDiv(One, twoa)), r)
                         ELSE Surd(RDiv(RNeg(b), twoa), RDiv(One, twoa), r))
    ELSE IF RSign(r) = 0
    THEN IF RSign(a) = 0 THEN NoRoot   \* -b / 0.0 is nan, nan >= 0 is False
         ELSE NonNegRoot(Surd(RDiv(RNeg(b), twoa), Zero, Zero))
    ELSE NoRoot

rootFinder(a, b, c) ==
    RootOf(a, b, RSub(RSq(b), RMul(<<4, 1>>, RMul(a, c))), RMul(Two, a))

(***************************************************************************)
(* The compact representation: optimize.py 3271-3288.  S and Y are         *)
(* sequences of columns.  M = D + L + L^T with D_ii = s_i.y_i and          *)
(* L_ij = s_i.y_j for j < i;  B d = Y (M^-1 (Y^T d)).                      *)
(***************************************************************************)
MiddleMatrix(S, Y) ==
    [i \in 1..Len(Y) |-> [j \in 1..Len(Y) |->
        IF i = j THEN Dot(S[i], Y[i])
        ELSE IF j < i THEN Dot(S[i], Y[j]) ELSE Dot(S[j], Y[i])]]

Minor(M, i, j) ==
    [r \in 1..(Len(M) - 1) |-> [c \in 1..(Len(M) - 1) |->
        M[IF r < i THEN r ELSE r + 1][IF c < j THEN c ELSE c + 1]]]

RECURSIVE Det(_)
Det(M) ==
    IF Len(M) = 0 THEN One
    ELSE IF Len(M) = 1 THEN M[1][1]
    ELSE SumSeq([j \in 1..Len(M) |->
            IF M[1][j] = Zero THEN Zero
            ELSE RMul(IF j % 2 = 1 THEN M[1][j] ELSE RNeg(M[1][j]),
                      Det(Minor(M, 1, j)))])

\* np.linalg.inv raises LinAlgError on a singular matrix
Singular(M) == Det(M) = Zero
MatInv(M) ==
    LET dt == Det(M)
    IN  [i \in 1..Len(M) |-> [j \in 1..Len(M) |->
            RDiv(IF (i + j) % 2 = 0 THEN Det(Minor(M, j, i))
                 ELSE RNeg(Det(Minor(M, j, i))), dt)]]

MatVec(A, v) == Tabulate(LAMBDA i : Dot(A[i], v), Len(A))
\* Y.T d
YtVec(Y, d) == Tabulate(LAMBDA i : Dot(Y[i], d), Len(Y))
\* Y c, a combination of the columns
RECURSIVE ColComb(_, _, _)
ColComb(Y, c, n) ==
    IF Y = <<>> THEN VZero(n)
    ELSE VAdd(VScale(Head(c), Head(Y)), ColComb(Tail(Y), Tail(c), n))
Bk_d(Y, Minv, d) == ColComb(Y, MatVec(Minv, YtVec(Y, d)), Len(d))

(***************************************************************************)
(* CG_Steinhaug_matFree(epsTR, g, deltak, S, Y, nv): optimize.py 3250-3317 *)
(* as a machine: CGEntry is the code before the while loop, CGBody one     *)
(* pass of the loop.  pc is "loop" while flag is True, "return" once pk is *)
(* returned, "raise" when an exception leaves the function.                *)
(***************************************************************************)
trsLoop == Thresh(One, 12)

CGReturn(st, pk, how) == [st EXCEPT !.pc = "return", !.pk = pk, !.exit = how]
CGRaise(st, exc) == [st EXCEPT !.pc = "raise", !.exit = exc]
\* a number of the call is irrational or out of range
CGOutside(st) == [st EXCEPT !.pc = "outside"]

CGEntry(epsTR, g, deltak, S, Y) ==
    LET st == [pc |-> "loop", exit |-> "", epsTR |-> epsTR, g |-> g,
               deltak |-> deltak, S |-> S, Y |-> Y,
               zOld |-> VZero(Len(g)), rOld |-> g, dOld |-> VNeg(g),
               pk |-> RatVec(VZero(Len(g))), Minv |-> <<>>, j |-> 0]
        M == MiddleMatrix(S, Y)
    IN  IF ~Num(NormSq(g)) THEN CGOutside(st)
        ELSE IF LtThresh(NormSq(g), ThreshSq(epsTR))
        THEN CGReturn(st, RatVec(st.zOld), "small_residual")
        ELSE IF ~Num(Det(M)) THEN CGOutside(st)
        ELSE IF Singular(M) THEN CGRaise(st, "LinAlgError")
        ELSE [st EXCEPT !.Minv = MatInv(M)]

\* "pk = zOld + tau * dOld; return pk"
BoundaryPoint(st, how, pk) ==
    IF ~(VNum(pk.rat) /\ VNum(pk.coef)) THEN CGOutside(st)
    ELSE CGReturn(st, pk, how)
BoundaryAt(st, how, tau) ==
    IF tau.kind = "outside" THEN CGOutside(st)
    ELSE IF tau.kind = "None" THEN CGRaise(st, "TypeError")   \* None * ndarray
    ELSE IF tau.kind = "inf" THEN CGReturn(st, st.pk, "nonfinite")
    ELSE BoundaryPoint(st, how, SurdVec(VAdd(st.zOld, VScale(tau.x.u, st.dOld)),
                                        VScale(tau.x.w, st.dOld), tau.x.rad))
\* tau = rootFinder(|d|^2, 2 z.d, |z|^2 - deltak^2)
BoundaryStep(st, how) ==
    BoundaryAt(st, how, rootFinder(NormSq(st.dOld), RMul(Two, Dot(st.zOld, st.dOld)),
                                   RSub(NormSq(st.zOld), RSq(st.deltak))))

\* a test that lets every zNew through: plain conjugate gradients, which
\* leave the region
NeverLeaves(st, zNew) == FALSE

\* the test against twice the radius
LeavesTwice(st, zNew) == RLe(RMul(<<4, 1>>, RSq(st.deltak)), NormSq(zNew))

\* "if LA.norm(zNew) >= deltak"
LeavesRegion(st, zNew) == RLe(RSq(st.deltak), NormSq(zNew))

\* the loop body, one operator for each value it computes in turn
CGAdvance(st, zNew, rNew, dNew) ==
    IF ~VNum(dNew) THEN CGOutside(st)
    ELSE [st EXCEPT !.zOld = zNew, !.dOld = dNew, !.rOld = rNew, !.j = st.j + 1]
CGWithBeta(st, zNew, rNew, betajplus1) ==
    CGAdvance(st, zNew, rNew, VAdd(VNeg(rNew), VScale(betajplus1, st.dOld)))
CGWithResidual(st, zNew, rNew) ==
    IF ~Num(NormSq(rNew)) THEN CGOutside(st)
    ELSE IF LtThresh(NormSq(rNew), ThreshSq(st.epsTR))
    THEN CGReturn(st, RatVec(zNew), "converged")
    ELSE CGWithBeta(st, zNew, rNew, RDiv(Dot(rNew, rNew), Dot(st.rOld, st.rOld)))
CGWithIterate(st, Bd, alphaj, zNew) ==
    IF ~Num(NormSq(zNew)) THEN CGOutside(st)
    ELSE IF LeavesRegion(st, zNew) THEN BoundaryStep(st, "boundary")
    ELSE CGWithResidual(st, zNew, VAdd(st.rOld, VScale(alphaj, Bd)))
CGWithAlpha(st, Bd, alphaj) ==
    CGWithIterate(st, Bd, alphaj, VAdd(st.zOld, VScale(alphaj, st.dOld)))
CGWithCurvature(st, Bd, dBd) ==
    IF ~Num(dBd) THEN CGOutside(st)
    ELSE IF LtThresh(dBd, trsLoop) THEN BoundaryStep(st, "neg_curvature")
    ELSE CGWithAlpha(st, Bd, RDiv(Dot(st.rOld, st.rOld), dBd))
CGWithBd(st, Bd) == CGWithCurvature(st, Bd, Dot(st.dOld, Bd))
CGBody(st) == CGWithBd(st, Bk_d(st.Y, st.Minv, st.dOld))

\* the call as the drivers see it; a call that is still in the loop after
\* MaxPasses passes is cut off there (left with pc = "loop")
MaxPasses == 2
RECURSIVE CGRun(_, _)
CGRun(st, n) == IF st.pc = "loop" /\ n > 0 THEN CGRun(CGBody(st), n - 1) ELSE st
CG_Steinhaug_matFree(eps_TR, g, deltak, S, Y) ==
    CGRun(CGEntry(eps_TR, g, deltak, S, Y), MaxPasses)

(***************************************************************************)
(* Pieces shared by the trust-region drivers _minimize_sr1, _minimize_sr1n *)
(* and _minimize_mosr1.  The store is the pair of matrices S, Y, kept as   *)
(* the sequences of their columns, oldest first.                           *)
(***************************************************************************)
eta == Thresh(One, 6)
epsTR == Thresh(One, 10)
gtol == Thresh(One, 5)

\* x > t.m * 10^-t.e
GtThresh(x, t) ==
    LET q == RDiv(x, t.m)
    IN  q[1] > DivPow10(q[2], t.e)

RMax(a, b) == IF RLt(a, b) THEN b ELSE a
RECURSIVE AMax(_)
AMax(s) == IF Len(s) = 1 THEN s[1] ELSE RMax(Head(s), AMax(Tail(s)))
\* vecnorm(x, ord=Inf)
vecnorm(x) == AMax([i \in DOMAIN x |-> RAbs(x[i])])

\* theta_k and mu are carried on the grid of multiples of 1/Grid; the square
\* root of the recurrence is not taken: the largest grid point c/Grid below
\*   ((gamma - th^2) + sqrt((gamma - th^2)^2 + 4 th^2)) / 2
\* is the largest one with (c/Grid) * (c/Grid + th^2 - gamma) <= th^2
Grid == 10
gamma == <<1, 100000>>
RECURSIVE GridFloor(_, _, _)
GridFloor(th, u, c) ==
    IF c = 0 \/ RLe(RMul(Rat(c, Grid), RAdd(Rat(c, Grid), u)), RSq(th))
    THEN Rat(c, Grid)
    ELSE GridFloor(th, u, c - 1)
ThetaNext(theta_k) == GridFloor(theta_k, RSub(RSq(theta_k), gamma), Grid)
\* mu = theta_k (1 - theta_k) / (theta_k^2 + theta_kp1), rounded down to the grid
Mu(theta_k, theta_kp1) ==
    LET q == RDiv(RMul(theta_k, RSub(One, theta_k)), RAdd(RSq(theta_k), theta_kp1))
    IN  Rat((q[1] * Grid) \div q[2], Grid)

\* ared / pred as numpy divides: pred = 0 gives +-inf or nan, not an exception
Ratio(ared, pred) ==
    IF pred # Zero THEN [kind |-> "num", v |-> RDiv(ared, pred)]
    ELSE IF RSign(ared) > 0 THEN [kind |-> "posinf", v |-> Zero]
    ELSE IF RSign(ared) < 0 THEN [kind |-> "neginf", v |-> Zero]
    ELSE [kind |-> "nan", v |-> Zero]
RatioGt(rho, c) == rho.kind = "posinf" \/ (rho.kind = "num" /\ RLt(c, rho.v))
RatioGe(rho, c) == rho.kind = "posinf" \/ (rho.kind = "num" /\ RLe(c, rho.v))
RatioLt(rho, c) == rho.kind = "neginf" \/ (rho.kind = "num" /\ RLt(rho.v, c))
RatioLe(rho, c) == rho.kind = "neginf" \/ (rho.kind = "num" /\ RLe(rho.v, c))
\* ared / pred > eta
Accepts(rho) == rho.kind = "posinf" \/ (rho.kind = "num" /\ GtThresh(rho.v, eta))

\* the update that doubles every radius, whatever the ratio
GrowRadius(deltak, rho) == RMul(Two, deltak)

\* the update that moves the radius by 1 instead of by a factor of 2
StepRadius(deltak, rho) ==
    IF RatioGt(rho, <<3, 4>>) THEN RAdd(deltak, One)
    ELSE IF RatioLt(rho, <<1, 10>>) THEN RSub(deltak, One)
    ELSE deltak

\* the update that grows the radius by a factor of 4
FastRadius(deltak, rho) ==
    IF RatioGt(rho, <<3, 4>>) THEN RMul(<<4, 1>>, deltak)
    ELSE IF RatioLt(rho, <<1, 10>>) THEN RMul(deltak, Half)
    ELSE deltak

\* "Update trust region radius"
UpdateRadius(deltak, rho) ==
    IF RatioGt(rho, <<3, 4>>) THEN RMul(Two, deltak)
    ELSE IF RatioGe(rho, <<1, 10>>) /\ RatioLe(rho, <<3, 4>>) THEN deltak
    ELSE IF RatioLt(rho, <<1, 10>>) THEN RMul(deltak, Half)
    ELSE deltak

\* B_k v from the store, in compact form (M invertible)
Bk(S, Y, v) == Bk_d(Y, MatInv(MiddleMatrix(S, Y)), v)

\* |a| > eps * sqrt(w) for eps = sqrt(np.finfo(float).eps) = 2^-26
RECURSIVE DivPow2(_, _)
DivPow2(n, e) == IF e = 0 \/ n = 0 THEN n ELSE DivPow2(n \div 2, e - 1)
GtEps(a, w) ==
    IF w = Zero THEN a # Zero
    ELSE LET q == RDiv(RSq(a), w)
         IN  q[1] > DivPow2(q[2], 52)
\* the numbers GtEps(a, w) compares are within range
GtEpsNum(a, w) == Num(a) /\ Num(w) /\ (w # Zero => Num(RDiv(RSq(a), w)))

\* LA.norm(yk - Bksk) ** 2 for yk of shape (N, 1) and Bksk of shape (N,): the
\* difference broadcasts to the N x N matrix yk[i] - Bksk[j], and its norm is
\* the Frobenius norm
BroadcastNormSq(yk, Bksk) ==
    SumSeq([i \in 1..(Len(yk) * Len(Bksk)) |->
        RSq(RSub(yk[((i - 1) \div Len(Bksk)) + 1], Bksk[((i - 1) % Len(Bksk)) + 1]))])

\* the loop over the m sampled pairs at k == 1: probes[idx] is the point
\* xk + Stemp[:, idx] with the gradient there.  b is Bksk of this pass, d is
\* Ytemp[:, idx] - Bksk
RECURSIVE SampleLoop(_, _, _, _, _)
SampleTest(S, Y, probes, idx, b, d) ==
    IF ~GtEpsNum(Dot(d, probes[idx].s), RMul(NormSq(d), NormSq(probes[idx].s)))
    THEN [S |-> S, Y |-> Y, Bksk |-> b, exc |-> "outside"]
    ELSE IF GtEps(Dot(d, probes[idx].s), RMul(NormSq(d), NormSq(probes[idx].s)))
    THEN SampleLoop(Append(S, probes[idx].s), Append(Y, probes[idx].y), b, probes, idx + 1)
    ELSE SampleLoop(S, Y, b, probes, idx + 1)
SamplePass(S, Y, probes, idx, b) ==
    SampleTest(S, Y, probes, idx, b, VSub(probes[idx].y, b))
SampleLoop(S, Y, Bksk, probes, idx) ==
    IF idx > Len(probes) THEN [S |-> S, Y |-> Y, Bksk |-> Bksk, exc |-> ""]
    ELSE IF ~Num(Det(MiddleMatrix(S, Y)))
    THEN [S |-> S, Y |-> Y, Bksk |-> Bksk, exc |-> "outside"]
    ELSE IF Singular(MiddleMatrix(S, Y))
    THEN [S |-> S, Y |-> Y, Bksk |-> Bksk, exc |-> "LinAlgError"]
    ELSE SamplePass(S, Y, probes, idx, Bk(S, Y, probes[idx].s))

\* S[:, -10:]
LastCols(M, n) == IF Len(M) <= n THEN M ELSE SubSeq(M, Len(M) - n + 1, Len(M))

\* zeta of the "Global Convergence Term"
ZetaOf(sk, p_times_q, const, gnorm) ==
    IF RSign(p_times_q) < 0
    THEN RSub(const, RDiv(p_times_q, RMul(Dot(sk, sk), gnorm)))
    ELSE const
Zeta(sk, yk, gnorm) ==
    ZetaOf(sk, Dot(sk, yk), IF GtThresh(gnorm, Thresh(One, 2)) THEN Two ELSE <<100, 1>>,
           gnorm)

(***************************************************************************)
(* One pass of the while loop of a trust-region driver, in two steps:      *)
(* TRPropose up to the predicted reduction, TRTakeStep from the ratio test *)
(* on.  t is the driver's state.  What the callables return during the     *)
(* pass is an input: probes[i].r is Stemp[:, i] with probes[i].y the       *)
(* gradient at xk + Stemp[:, i], gtop the gradient at xk + mu*vk, fnew the *)
(* value at the trial point, gnew the gradient at the accepted point.      *)
(* t.gx is the gradient at xk, which myfprime returns again whenever it is *)
(* called at xk.  t.pre is the state the pass started from.                *)
(***************************************************************************)
TRRaise(t, exc) == [t EXCEPT !.pc = "raise", !.exc = exc]
\* a number of the pass is irrational or out of range
TROutside(t) == [t EXCEPT !.pc = "outside"]

\* what a pass may change
TRFrame(t) == [xk |-> t.xk, vk |-> t.vk, theta_k |-> t.theta_k, deltak |-> t.deltak,
               S |-> t.S, Y |-> t.Y, gfk |-> t.gfk, gfkm1 |-> t.gfkm1,
               old_fval |-> t.old_fval]

\* the update that stores every pair, whatever the test says
TRStoreAll(t, xkp1, vkp1, gfkp1, yk, yk_BkskDotsk, w) ==
    IF ~(VNum(yk) /\ VNum(xkp1) /\ VNum(vkp1) /\ GtEpsNum(yk_BkskDotsk, w))
    THEN TROutside(t)
    ELSE [t EXCEPT !.xk = xkp1, !.vk = vkp1, !.gx = gfkp1,
                   !.gfkm1 = IF t.alg = "mosr1" THEN t.gfk ELSE @,
                   !.gfk = gfkp1,
                   !.S = LastCols(Append(@, t.sk_TR), 10),
                   !.Y = LastCols(Append(@, yk), 10),
                   !.yk = yk,
                   !.appended = TRUE,
                   !.gnorm = vecnorm(gfkp1),
                   !.pc = IF GtThresh(vecnorm(gfkp1), gtol) THEN "loop" ELSE "break"]

\* from "sk = sk_TR" to the end of the loop body, given yk and the two sides
\* of the test on it
TRStore(t, xkp1, vkp1, gfkp1, yk, yk_BkskDotsk, w) ==
    IF ~(VNum(yk) /\ VNum(xkp1) /\ VNum(vkp1) /\ GtEpsNum(yk_BkskDotsk, w))
    THEN TROutside(t)
    ELSE [t EXCEPT !.xk = xkp1, !.vk = vkp1, !.gx = gfkp1,
                   !.gfkm1 = IF t.alg = "mosr1" THEN t.gfk ELSE @,
                   !.gfk = gfkp1,
                   !.S = IF GtEps(yk_BkskDotsk, w)
                         THEN LastCols(Append(@, t.sk_TR), 10) ELSE @,
                   !.Y = IF GtEps(yk_BkskDotsk, w)
                         THEN LastCols(Append(@, yk), 10) ELSE @,
                   !.yk = yk,
                   !.appended = GtEps(yk_BkskDotsk, w),
                   !.gnorm = vecnorm(gfkp1),
                   !.pc = IF GtThresh(vecnorm(gfkp1), gtol) THEN "loop" ELSE "break"]
TRTest(t, xkp1, vkp1, gfkp1, yk) ==
    TRStore(t, xkp1, vkp1, gfkp1, yk, Dot(VSub(yk, t.Bk_skTR), t.sk_TR),
            RMul(BroadcastNormSq(yk, t.Bksk), NormSq(t.sk_TR)))
\* yk from the raw difference: mosr1 adds 0.1 * sk, sr1n zeta * gnorm * sk,
\* sr1 nothing
TRDamp(t, xkp1, vkp1, gfkp1, raw) ==
    TRTest([t EXCEPT !.damp = [raw |-> raw, gnorm |-> t.gnorm]], xkp1, vkp1, gfkp1,
           IF t.alg = "mosr1" THEN VAdd(raw, VScale(<<1, 10>>, t.sk_TR))
           ELSE IF t.alg = "sr1n"
                THEN VAdd(raw, VScale(RMul(Zeta(t.sk_TR, raw, t.gnorm), t.gnorm), t.sk_TR))
                ELSE raw)
TRUpdate(t, xkp1, vkp1, gfkp1) ==
    TRDamp(t, xkp1, vkp1, gfkp1, VSub(gfkp1, IF t.alg = "mosr1" THEN t.agfk ELSE t.gfk))

\* "k += 1", theta_kp1, mu, theta_k = theta_kp1 (sr1 has no momentum)
\* a pass after a rejected step counted twice
TRMomentumTwice(t) ==
    IF t.alg = "sr1" THEN [t EXCEPT !.pre = TRFrame(t), !.pc = "step", !.k = @ + 1]
    ELSE [t EXCEPT !.pre = TRFrame(t), !.pc = "step",
                   !.k = IF t.theta_k = One /\ @ > 0 THEN @ + 2 ELSE @ + 1,
                   !.theta_k = ThetaNext(@),
                   !.mu = Mu(t.theta_k, ThetaNext(t.theta_k))]
TRMomentum(t) ==
    IF t.alg = "sr1" THEN [t EXCEPT !.pre = TRFrame(t), !.pc = "step", !.k = @ + 1]
    ELSE [t EXCEPT !.pre = TRFrame(t), !.pc = "step", !.k = @ + 1,
                   !.theta_k = ThetaNext(@),
                   !.mu = Mu(t.theta_k, ThetaNext(t.theta_k))]
\* the point xk + mu*vk
TRLookahead(t) == [t EXCEPT !.xmu = VAdd(t.xk, VScale(t.mu, t.vk))]
\* sr1n: gfk = myfprime(xk + mu*vk); mosr1: agfk = (1 + mu)*gfk - mu*gfkm1;
\* agfk is the gradient the pass hands to CG_Steinhaug_matFree
TRGradient(t, gtop) ==
    IF t.alg = "sr1n"
    THEN [t EXCEPT !.gfk = IF t.xmu = t.xk THEN t.gx ELSE gtop,
                   !.agfk = IF t.xmu = t.xk THEN t.gx ELSE gtop]
    ELSE IF t.alg = "mosr1"
    THEN [t EXCEPT !.agfk = VSub(VScale(RAdd(One, t.mu), t.gfk), VScale(t.mu, t.gfkm1))]
    ELSE [t EXCEPT !.agfk = t.gfk]
\* the store after the sampling of the first pass
TRSampled(t, smp) ==
    IF smp.exc = "outside" THEN TROutside(t)
    ELSE IF smp.exc # "" THEN TRRaise(t, smp.exc)
    ELSE [t EXCEPT !.sampled = Len(smp.S), !.S = smp.S, !.Y = smp.Y, !.Bksk = smp.Bksk]
\* "if k == 1": the sampling
TRSample(t, probes) ==
    IF ~(VNum(t.agfk) /\ VNum(t.xmu)) THEN TROutside(t)
    ELSE IF t.k # 1 THEN t
    ELSE TRSampled(t, SampleLoop(<<>>, <<>>, t.Bksk,
                                 [i \in 1..t.m |-> [s |-> VAdd(t.xk, probes[i].r),
                                                    y |-> probes[i].y]], 1))
\* from "k += 1" to the sampling at k == 1
TRHead(t, probes, gtop) == TRSample(TRGradient(TRLookahead(TRMomentum(t)), gtop), probes)

\* pred = -(agfk.sk_TR + 0.5 sk_TR.Bk_skTR)
TRPredict(t) ==
    IF ~VNum(t.Bk_skTR) THEN TROutside(t)
    ELSE [t EXCEPT !.pred = RNeg(RAdd(Dot(t.agfk, t.sk_TR),
                                      RMul(Half, Dot(t.sk_TR, t.Bk_skTR))))]
\* Bk_skTR from the store
TRModel(t) ==
    IF Singular(MiddleMatrix(t.S, t.Y)) THEN TRRaise(t, "LinAlgError")
    ELSE TRPredict([t EXCEPT !.Bk_skTR = Bk(t.S, t.Y, t.sk_TR)])
\* the step CG_Steinhaug_matFree returned; the runs followed are those whose
\* step is found within MaxPasses passes and has rational components
TRWithStep(t, cgr) ==
    IF cgr.pc = "raise" THEN TRRaise(t, cgr.exit)
    ELSE IF cgr.pc \in {"loop", "outside"} \/ cgr.pk.rad # Zero THEN TROutside(t)
    ELSE TRModel([t EXCEPT !.sk_TR = cgr.pk.rat])
\* the rejection of a pass whose pred is out of range
TRChecked(t) == IF t.pc = "step" /\ ~Num(t.pred) THEN TROutside(t) ELSE t
\* the call of CG_Steinhaug_matFree, then Bk_skTR and pred
TRSolve(t) ==
    IF t.pc # "step" THEN t
    ELSE TRChecked(TRWithStep(t, CG_Steinhaug_matFree(epsTR, t.agfk, t.deltak, t.S, t.Y)))

\* "Take step": the accepted step moves x and goes on to the update; a
\* rejected one resets theta_k and, in sr1 and sr1n, continues with the next
\* pass; mosr1 goes on to the update with xkp1 = xk
TRMove(t, new_fval, gnew) ==
    IF ~(Num(t.rho.v) /\ Num(t.deltak)) THEN TROutside(t)
    ELSE IF t.accepted
    THEN TRUpdate([t EXCEPT !.old_fval = new_fval], VAdd(t.xmu, t.sk_TR),
                  IF t.alg = "sr1" THEN t.vk ELSE VSub(VAdd(t.xmu, t.sk_TR), t.xk), gnew)
    ELSE IF t.alg = "mosr1"
    THEN TRUpdate([t EXCEPT !.theta_k = One], t.xk, t.vk, t.gx)
    ELSE [t EXCEPT !.theta_k = IF t.alg = "sr1n" THEN One ELSE @, !.appended = FALSE]
\* "Update trust region radius" and the test of "Take step"
TRRadius(t) ==
    [t EXCEPT !.deltak = UpdateRadius(@, t.rho), !.accepted = Accepts(t.rho), !.pc = "loop"]
\* ared / pred
TRRatio(t, new_fval) == [t EXCEPT !.rho = Ratio(RSub(t.old_fval, new_fval), t.pred)]
\* new_fval = f(xk + mu*vk + sk_TR): the value f returns, which at xk is old_fval
TRWithValue(t, new_fval, gnew) ==
    IF ~Num(RSub(t.old_fval, new_fval)) THEN TROutside(t)
    ELSE TRMove(TRRadius(TRRatio(t, new_fval)), new_fval, gnew)
\* new_fval, ared, the radius update and "Take step"
TRTakeStep(t, fnew, gnew) ==
    TRWithValue(t, IF VAdd(t.xmu, t.sk_TR) = t.xk THEN t.old_fval ELSE fnew, gnew)

\* the block after the loop that sets the status
TRStatus(t) ==
    [t EXCEPT !.pc = "done",
              !.warnflag = IF t.warnflag = 2 THEN 2
                           ELSE IF t.k >= t.maxiter THEN 1
                           ELSE 0]

(***************************************************************************)
(* Numbers of the line-search drivers.  _minimize_lbfgs scales its first   *)
(* direction by 1e-10, so steps and their squares have no 32-bit numerator *)
(* and denominator.  A number here is <<n, d, a, b>>, the rational         *)
(* (n/d) * 2^a * 5^b with n and d coprime to 10 and to each other, d > 0;  *)
(* products and quotients are exact, a sum is formed when its terms can be *)
(* brought to a common power within range, and is XOut otherwise.          *)
(***************************************************************************)
XOut == <<0, 0, 0, 0>>
XZero == <<0, 1, 0, 0>>
XOne == <<1, 1, 0, 0>>
XNum(x) == x[2] # 0

\* n without its factors p, and the number of them
RECURSIVE Strip(_, _)
Strip(n, p) == IF n # 0 /\ n % p = 0 THEN Strip(n \div p, p) ELSE n
RECURSIVE Mult(_, _)
Mult(n, p) == IF n # 0 /\ n % p = 0 THEN 1 + Mult(n \div p, p) ELSE 0

\* r * 2^a * 5^b for a rational r
XOf(r, a, b) ==
    IF ~Num(r) THEN XOut
    ELSE IF r[1] = 0 THEN XZero
    ELSE <<Strip(Strip(r[1], 2), 5), Strip(Strip(r[2], 2), 5),
           a + Mult(r[1], 2) - Mult(r[2], 2), b + Mult(r[1], 5) - Mult(r[2], 5)>>
XInt(n) == XOf(<<n, 1>>, 0, 0)
\* 10^-e
XDec(e) == <<1, 1, -e, -e>>

XNeg(x) == <<-x[1], x[2], x[3], x[4]>>
XAbs(x) == <<Abs(x[1]), x[2], x[3], x[4]>>
XSign(x) == IF x[1] > 0 THEN 1 ELSE IF x[1] < 0 THEN -1 ELSE 0
XMul(x, y) ==
    IF ~XNum(x) \/ ~XNum(y) THEN XOut
    ELSE XOf(RMul(<<x[1], x[2]>>, <<y[1], y[2]>>), x[3] + y[3], x[4] + y[4])
XInv(x) ==
    IF x[1] > 0 THEN <<x[2], x[1], -x[3], -x[4]>> ELSE <<-x[2], -x[1], -x[3], -x[4]>>
\* x / y; a division by zero (inf or nan in numpy) is not followed
XDiv(x, y) == IF ~XNum(y) \/ y[1] = 0 THEN XOut ELSE XMul(x, XInv(y))

Min(a, b) == IF a < b THEN a ELSE b
\* p^k when k <= kmax
Pw(p, k, kmax) == IF k > kmax THEN OutOfRange ELSE <<p^k, 1>>
\* the rational x / (2^a * 5^b), for a <= x[3] and b <= x[4]
XShift(x, a, b) == RMul(RMul(<<x[1], x[2]>>, Pw(2, x[3] - a, 29)), Pw(5, x[4] - b, 12))
XAdd(x, y) ==
    IF ~XNum(x) \/ ~XNum(y) THEN XOut
    ELSE IF x[1] = 0 THEN y
    ELSE IF y[1] = 0 THEN x
    ELSE XOf(RAdd(XShift(x, Min(x[3], y[3]), Min(x[4], y[4])),
                  XShift(y, Min(x[3], y[3]), Min(x[4], y[4]))),
             Min(x[3], y[3]), Min(x[4], y[4]))
XSub(x, y) == XAdd(x, XNeg(y))
\* Comparison forms no sum: x / y is compared with 1 on natural numbers of
\* any size, kept as sequences of digits to the base 10000, lowest first
RECURSIVE BigOf(_)
BigOf(n) == IF n = 0 THEN <<>> ELSE <<n % 10000>> \o BigOf(n \div 10000)
RECURSIVE BigTimes(_, _, _)
BigTimes(x, f, carry) ==
    IF x = <<>> THEN BigOf(carry)
    ELSE <<(x[1] * f + carry) % 10000>>
         \o BigTimes(Tail(x), f, (x[1] * f + carry) \div 10000)
\* x * f^k
RECURSIVE BigPow(_, _, _)
BigPow(x, f, k) ==
    IF k = 0 THEN x
    ELSE IF k >= 5 THEN BigTimes(BigPow(x, f, k - 5), f^5, 0)
    ELSE BigTimes(BigPow(x, f, k - 1), f, 0)
RECURSIVE BigCmp(_, _)
BigCmp(x, y) ==
    IF Len(x) # Len(y) THEN (IF Len(x) < Len(y) THEN -1 ELSE 1)
    ELSE IF x = <<>> THEN 0
    ELSE IF x[Len(x)] # y[Len(y)] THEN (IF x[Len(x)] < y[Len(y)] THEN -1 ELSE 1)
    ELSE BigCmp(SubSeq(x, 1, Len(x) - 1), SubSeq(y, 1, Len(y) - 1))
Digit(x) == IF x = <<>> THEN 0 ELSE x[1]
Rest(x) == IF x = <<>> THEN <<>> ELSE Tail(x)
RECURSIVE BigAdd(_, _, _)
BigAdd(x, y, carry) ==
    IF x = <<>> /\ y = <<>> THEN BigOf(carry)
    ELSE <<(Digit(x) + Digit(y) + carry) % 10000>>
         \o BigAdd(Rest(x), Rest(y), (Digit(x) + Digit(y) + carry) \div 10000)
RECURSIVE BigNorm(_)
BigNorm(x) ==
    IF x # <<>> /\ x[Len(x)] = 0 THEN BigNorm(SubSeq(x, 1, Len(x) - 1)) ELSE x
RECURSIVE BigMul(_, _)
BigMul(x, y) ==
    IF y = <<>> THEN <<>>
    ELSE BigNorm(BigAdd(BigTimes(x, y[1], 0), <<0>> \o BigMul(x, Tail(y)), 0))
Pos(i) == IF i > 0 THEN i ELSE 0
\* the sign of q - 1, for q > 0
XCmpOne(q) ==
    BigCmp(BigPow(BigPow(BigOf(q[1]), 2, Pos(q[3])), 5, Pos(q[4])),
           BigPow(BigPow(BigOf(q[2]), 2, Pos(-q[3])), 5, Pos(-q[4])))
\* the sign of x - y
XCmp(x, y) ==
    IF XSign(x) # XSign(y) THEN (IF XSign(x) < XSign(y) THEN -1 ELSE 1)
    ELSE IF XSign(x) = 0 THEN 0
    ELSE XSign(x) * XCmpOne(XDiv(x, y))
\* x and y can be compared
XCmpNum(x, y) ==
    /\ XNum(x) /\ XNum(y)
    /\ (XSign(x) = XSign(y) /\ XSign(x) # 0) => XNum(XDiv(x, y))
XLt(x, y) == XCmp(x, y) < 0
XLe(x, y) == XCmp(x, y) <= 0
\* the square root, when it is rational
XSqrt(x) ==
    IF XNum(x) /\ x[1] >= 0 /\ IsSquare(x[1]) /\ IsSquare(x[2])
       /\ x[3] % 2 = 0 /\ x[4] % 2 = 0
    THEN <<ISqrt(x[1]), ISqrt(x[2]), x[3] \div 2, x[4] \div 2>>
    ELSE XOut

RECURSIVE XSum(_)
XSum(s) == IF s = <<>> THEN XZero ELSE XAdd(Head(s), XSum(Tail(s)))
XVAdd(u, v) == Tabulate(LAMBDA i : XAdd(u[i], v[i]), Len(u))
XVSub(u, v) == Tabulate(LAMBDA i : XSub(u[i], v[i]), Len(u))
XVScale(c, v) == Tabulate(LAMBDA i : XMul(c, v[i]), Len(v))
XVNeg(v) == Tabulate(LAMBDA i : XNeg(v[i]), Len(v))
XDot(u, v) == XSum(Tabulate(LAMBDA i : XMul(u[i], v[i]), Len(u)))
XVZero(n) == Tabulate(LAMBDA i : XZero, n)
XVNum(v) == \A i \in DOMAIN v : XNum(v[i])

XHalf == <<1, 1, -1, 0>>
XMax(a, b) == IF XLt(a, b) THEN b ELSE a
RECURSIVE XAMax(_)
XAMax(s) == IF Len(s) = 1 THEN s[1] ELSE XMax(Head(s), XAMax(Tail(s)))
\* vecnorm(x, ord): np.amax(np.abs(x)) for ord = Inf, the 2-norm for ord = 2
XvecnormInf(x) == XAMax(Tabulate(LAMBDA i : XAbs(x[i]), Len(x)))
Xvecnorm2(x) == XSqrt(XDot(x, x))

\* matrices are sequences of rows
XCol(B, j) == Tabulate(LAMBDA r : B[r][j], Len(B))
XMatVec(A, v) == Tabulate(LAMBDA i : XDot(A[i], v), Len(A))
XMatMul(A, B) ==
    Tabulate(LAMBDA i : Tabulate(LAMBDA j : XDot(A[i], XCol(B, j)), Len(B)), Len(A))
XMatAdd(A, B) == Tabulate(LAMBDA i : XVAdd(A[i], B[i]), Len(A))
XMatSub(A, B) == Tabulate(LAMBDA i : XVSub(A[i], B[i]), Len(A))
XMatScale(c, A) == Tabulate(LAMBDA i : XVScale(c, A[i]), Len(A))
\* u[:, np.newaxis] * v[np.newaxis, :]
XOuter(u, v) == Tabulate(LAMBDA i : XVScale(u[i], v), Len(u))
\* np.eye(N)
XEye(n) == Tabulate(LAMBDA i : Tabulate(LAMBDA j : IF i = j THEN XOne ELSE XZero, n), n)
XMatNum(A) == \A i \in DOMAIN A : XVNum(A[i])

(***************************************************************************)
(* Pieces shared by the line-search drivers _minimize_lbfgs (optimize.py   *)
(* 1759-2000) and _minimize_naq (naq.py 110-353, lineSearch = 'armijo').   *)
(* l is the driver's state.  l.fx is the value of f at l.xk, which f       *)
(* returns again whenever it is called there; l.search tells how the last  *)
(* Armijo search ended; l.pre is the state the iteration started from.     *)
(***************************************************************************)
Xgtol == XDec(5)
\* the default of the option etol
None == <<>>

\* nan, which no arithmetic of the model is done on: the operators below
\* branch on it as the code's comparisons and np.isnan do
XNaN == <<0, 0, 1, 1>>
XIsNaN(x) == x = XNaN
XVNaN(n) == Tabulate(LAMBDA i : XNaN, n)
XVHasNaN(v) == \E i \in DOMAIN v : XIsNaN(v[i])
\* +inf; like nan it is branched on: a sum with a finite term is the same
\* special value, every comparison with nan is False, and every finite
\* value is below +inf
XInf == <<1, 0, 0, 0>>
XSpecial(x) == XIsNaN(x) \/ x = XInf
FAdd(x, y) == IF XSpecial(x) THEN x ELSE XAdd(x, y)
FCmpNum(x, y) == XSpecial(x) \/ XSpecial(y) \/ XCmpNum(x, y)
FLt(x, y) ==
    IF XIsNaN(x) \/ XIsNaN(y) \/ x = XInf THEN FALSE
    ELSE IF y = XInf THEN TRUE ELSE XLt(x, y)
FLe(x, y) ==
    IF XIsNaN(x) \/ XIsNaN(y) THEN FALSE
    ELSE IF y = XInf THEN TRUE
    ELSE IF x = XInf THEN FALSE ELSE XLe(x, y)
\* "gnorm > gtol", False for nan
AboveGtol(gnorm) == ~XIsNaN(gnorm) /\ XLt(Xgtol, gnorm)

LSRaise(l, exc) == [l EXCEPT !.pc = "raise", !.exc = exc]
\* a number of the iteration is irrational or out of range
LSOutside(l) == [l EXCEPT !.pc = "outside"]

LSFrame(l) == [xk |-> l.xk, fx |-> l.fx, k |-> l.k,
               sk_vec |-> l.sk_vec, yk_vec |-> l.yk_vec]

\* the zeta that leaves the pair undamped where its curvature is negative
PlainZeta(sk, p_times_q, const, gnorm) == const

\* zeta of "Global convergence"
XZetaOf(sk, p_times_q, const, gnorm) ==
    IF XSign(p_times_q) < 0
    THEN XSub(const, XDiv(p_times_q, XMul(XDot(sk, sk), gnorm)))
    ELSE const
XZeta(sk, yk, gnorm) ==
    XZetaOf(sk, XDot(sk, yk), IF XLt(XDec(2), gnorm) THEN XInt(2) ELSE XInt(100), gnorm)

(***************************************************************************)
(* _minimize_lbfgs: the direction (two-loop recursion over the stored      *)
(* pairs; the stores are Python lists, index j of the source is j + 1      *)
(* here), the Armijo loop "for line1 in range(10)", and the step.          *)
(***************************************************************************)
\* the places of the store that the loops of a pass read: sk_vec[idx - 1 - i]
\* for i in range(min(k, m))
PairsRead(k, m) == {Min(k, m) - i : i \in 0..(Min(k, m) - 1)}
\* "for i in range(min(k, m))": a[i], pk = pk - a[i] * yk_vec[idx - 1 - i]
RECURSIVE FirstLoop(_, _, _, _, _)
FirstStep(S, Y, idx, i, acc, ai) ==
    FirstLoop(S, Y, idx, i + 1,
              [pk |-> XVSub(acc.pk, XVScale(ai, Y[idx - i])), a |-> Append(acc.a, ai)])
FirstLoop(S, Y, idx, i, acc) ==
    IF i >= idx THEN acc
    ELSE FirstStep(S, Y, idx, i, acc,
                   XDiv(XDot(S[idx - i], acc.pk), XDot(S[idx - i], Y[idx - i])))
\* term, the sum of s.y / y.y over the pairs used
RECURSIVE Term(_, _, _, _, _)
Term(S, Y, idx, i, term) ==
    IF i >= idx THEN term
    ELSE Term(S, Y, idx, i + 1,
              XAdd(term, XDiv(XDot(S[idx - i], Y[idx - i]), XDot(Y[idx - i], Y[idx - i]))))
\* "pk = pk * term / idx" for k > 0, "pk = 1e-10 * pk" for k = 0
Scaled(S, Y, k, idx, pk) ==
    IF k > 0 THEN XVScale(XInv(XInt(idx)), XVScale(Term(S, Y, idx, 0, XZero), pk))
    ELSE XVScale(XDec(10), pk)
\* "for i in reversed(range(min(k, m)))": b, pk = pk + (a[i] - b) * sk_vec[idx - 1 - i]
RECURSIVE SecondLoop(_, _, _, _, _, _)
SecondStep(S, Y, idx, i, a, pk, b) ==
    SecondLoop(S, Y, idx, i - 1, a, XVAdd(pk, XVScale(XSub(a[i + 1], b), S[idx - i])))
SecondLoop(S, Y, idx, i, a, pk) ==
    IF i < 0 THEN pk
    ELSE SecondStep(S, Y, idx, i, a, pk,
                    XDiv(XDot(Y[idx - i], pk), XDot(Y[idx - i], S[idx - i])))
TwoLoopTail(S, Y, k, idx, acc) ==
    SecondLoop(S, Y, idx, idx - 1, acc.a, Scaled(S, Y, k, idx, acc.pk))
\* pk of the iteration
LDirectionOf(gfk, S, Y, k, m) ==
    TwoLoopTail(S, Y, k, Min(k, m),
                FirstLoop(S, Y, Min(k, m), 0, [pk |-> XVNeg(gfk), a |-> <<>>]))

\* LHS = f(xk + pk), old_old_fval = f(xk), gfk_times_pk, RHS, alpha_k = 1
LFirstTrial(l) ==
    [l EXCEPT !.RHS = FAdd(l.old_old_fval, XMul(XDec(3), l.gfk_times_pk))]
LWithDirection(l, pk, fv) ==
    IF ~XVNum(pk) THEN LSOutside(l)
    ELSE LFirstTrial([l EXCEPT !.pre = LSFrame(l), !.pk = pk,
                               !.gfk_times_pk = XDot(l.gfk, pk),
                               !.LHS = IF XVAdd(l.xk, pk) = l.xk THEN l.fx ELSE fv,
                               !.old_old_fval = l.fx,
                               !.alpha_k = XOne, !.line1 = 0, !.search = "none",
                               !.pc = "armijo"])
\* "if etol != None and old_fval < etol : break" opens the pass
LDirection(l, fv) ==
    IF l.etol # None /\ FLt(l.old_fval, l.etol) THEN [l EXCEPT !.pc = "break"]
    ELSE LWithDirection(l, LDirectionOf(l.gfk, l.sk_vec, l.yk_vec, l.k, l.m), fv)

\* one pass of "for line1 in range(10)": the test, and after a failed test
\* the halving with the new LHS and RHS; the tenth failed test ends the loop
LRetry(l, fv) ==
    [l EXCEPT !.LHS = IF XVAdd(l.xk, XVScale(l.alpha_k, l.pk)) = l.xk THEN l.fx ELSE fv,
              !.RHS = FAdd(l.old_old_fval,
                           XMul(XMul(XDec(3), l.alpha_k), l.gfk_times_pk)),
              !.search = IF l.line1 = 10 THEN "exhausted" ELSE "none",
              !.pc = IF l.line1 = 10 THEN "move" ELSE "armijo"]
LTrial(l, fv) ==
    IF ~FCmpNum(l.LHS, l.RHS) THEN LSOutside(l)
    ELSE IF FLt(l.LHS, l.RHS)
    THEN [l EXCEPT !.old_fval = l.LHS, !.search = "found", !.pc = "move"]
    ELSE LRetry([l EXCEPT !.alpha_k = XMul(@, XHalf), !.line1 = @ + 1], fv)

\* from "sk = alpha_k * pk" to "gnorm = vecnorm(gfk, ord=norm)".  The stores
\* are the caller's lists; with the defaults sk_vec = None, yk_vec = None
\* (~l.lists) "sk_vec.append(sk)" ends the call in AttributeError
LStore(l, sk, gfkp1, yk) ==
    IF ~(XVNum(yk) /\ XVNum(l.xk)) THEN LSOutside(l)
    ELSE IF ~l.lists THEN LSRaise(l, "AttributeError")
    ELSE [l EXCEPT !.yk = yk,
                   !.sk_vec = Append(@, sk), !.yk_vec = Append(@, yk),
                   !.gfk = gfkp1, !.k = @ + 1,
                   !.gnorm = XvecnormInf(gfkp1),
                   !.pc = "loop"]
LDamp(l, sk, gfkp1, yk) ==
    IF ~(XNum(XDot(sk, yk)) /\ XCmpNum(XDec(2), l.gnorm)) THEN LSOutside(l)
    ELSE LStore([l EXCEPT !.p_times_q = XDot(sk, yk)], sk, gfkp1,
                XVAdd(yk, XVScale(XMul(XZeta(sk, yk, l.gnorm), l.gnorm), sk)))
\* gfkp1 is nan: yk and p_times_q are nan, "p_times_q < 0" is False, the
\* damped yk is nan and is stored, gnorm is nan
LNaN(l, sk, gfkp1) ==
    IF ~l.lists THEN LSRaise(l, "AttributeError")
    ELSE [l EXCEPT !.p_times_q = XNaN, !.yk = gfkp1,
                   !.sk_vec = Append(@, sk), !.yk_vec = Append(@, gfkp1),
                   !.gfk = gfkp1, !.k = @ + 1, !.gnorm = XNaN, !.pc = "loop"]
LMoved(l, sk, gfkp1) ==
    IF XVHasNaN(gfkp1) THEN LNaN(l, sk, gfkp1)
    ELSE LDamp(l, sk, gfkp1, XVSub(gfkp1, l.gfk))
LWithStep(l, sk, gnew) ==
    LMoved([l EXCEPT !.sk = sk, !.xk = XVAdd(l.xk, sk), !.fx = l.LHS], sk,
           IF XVAdd(l.xk, sk) = l.xk THEN l.gfk ELSE gnew)
LMove(l, gnew) == LWithStep(l, XVScale(l.alpha_k, l.pk), gnew)

(***************************************************************************)
(* _minimize_naq with the default options (mu = 0.9, lineSearch =          *)
(* 'armijo', global_conv = True, norm = 2): the point xmuv and the         *)
(* direction, the Armijo loop "while alpha_k > 1e-4", and the step with    *)
(* the update of Hk.                                                       *)
(***************************************************************************)
\* xmuv, gfk = myfprime(xmuv) for k > 0, pk = -Hk gfk, old_old_fval = f(xmuv)
NArmijo(l, pk) ==
    IF ~(XVNum(pk) /\ XVNum(l.xmuv)) THEN LSOutside(l)
    ELSE IF l.lineSearch = "wolfe"
    THEN [l EXCEPT !.pk = pk, !.gfk_times_pk = XDot(l.gfk, pk),
                   !.alpha_k = XOne, !.search = "none", !.pc = "wolfe"]
    ELSE [l EXCEPT !.pk = pk, !.gfk_times_pk = XDot(l.gfk, pk),
                   !.alpha_k = XOne, !.warnflag = 2, !.search = "none",
                   !.pc = "armijo"]
NWithGradient(l) == NArmijo(l, XVNeg(XMatVec(l.Hk, l.gfk)))
NWithPoint(l, xmuv, gtop, fv) ==
    NWithGradient([l EXCEPT !.pre = LSFrame(l), !.xmuv = xmuv,
                            !.gfk = IF l.k > 0 /\ xmuv # l.xk THEN gtop ELSE @,
                            !.old_old_fval = IF xmuv = l.xk THEN l.fx ELSE fv])
NDirection(l, gtop, fv) == NWithPoint(l, XVAdd(l.xk, XVScale(l.mu, l.vk)), gtop, fv)

\* one pass of "while alpha_k > 1e-4"; when the loop ends with warnflag
\* still 2, "if warnflag: break" leaves the main loop
NHalve(l) ==
    IF XLt(XDec(4), l.alpha_k) THEN l
    ELSE [l EXCEPT !.search = "exhausted", !.pc = "break"]
NTest(l) ==
    IF ~FCmpNum(l.old_fval, l.RHS) THEN LSOutside(l)
    ELSE IF FLe(l.old_fval, l.RHS)
    THEN [l EXCEPT !.warnflag = 0, !.search = "found", !.pc = "move"]
    ELSE NHalve([l EXCEPT !.alpha_k = XMul(@, XHalf)])
NTrial(l, fv) ==
    NTest([l EXCEPT !.old_fval = IF XVAdd(l.xmuv, XVScale(l.alpha_k, l.pk)) = l.xmuv
                                 THEN l.old_old_fval ELSE fv,
                    !.RHS = FAdd(l.old_old_fval,
                                 XMul(XMul(XDec(3), l.alpha_k), l.gfk_times_pk))])

\* lineSearch = 'wolfe': "old_fval = f(xmuv + alpha_k * pk)" and the call of
\* _line_search_wolfe12.  line_search_wolfe1 and line_search_wolfe2 return
\* ret; ret[0] is None (NoStep) or a step length with ret[3] = f at that step
NoStep == [alpha |-> XZero, fval |-> XZero]
\* the search that raised _LineSearchError retried as an Armijo search
NWolfeRetried(l) ==
    [l EXCEPT !.warnflag = 2, !.search = "failed", !.alpha_k = XOne, !.pc = "armijo"]
\* "except _LineSearchError: warnflag = 2; break"
NWolfeFailed(l) == [l EXCEPT !.warnflag = 2, !.search = "failed", !.pc = "break"]
NWolfeFound(l, ret, by) ==
    [l EXCEPT !.alpha_k = ret.alpha, !.old_fval = ret.fval, !.search = by,
              !.pc = "move"]
\* _line_search_wolfe12: line_search_wolfe1, then line_search_wolfe2 if that
\* found no step, then "raise _LineSearchError()"
line_search_wolfe12(l, ret1, ret2) ==
    IF ret1 # NoStep THEN NWolfeFound(l, ret1, "wolfe1")
    ELSE IF ret2 # NoStep THEN NWolfeFound(l, ret2, "wolfe2")
    ELSE NWolfeFailed(l)
NWolfe(l, fv, ret1, ret2) ==
    line_search_wolfe12([l EXCEPT !.old_fval = IF XVAdd(l.xmuv, l.pk) = l.xmuv
                                               THEN l.old_old_fval ELSE fv],
                        ret1, ret2)
\* a step the searches may return at l: f there is the value f returns there,
\* and it meets the sufficient-decrease condition with c1 = 1e-4
WolfeStep(l, fv, ret) ==
    /\ ret.alpha = XOne => ret.fval = fv
    /\ XVAdd(l.xmuv, XVScale(ret.alpha, l.pk)) = l.xmuv => ret.fval = l.old_old_fval
    /\ FCmpNum(ret.fval, FAdd(l.old_old_fval,
                              XMul(XMul(XDec(4), ret.alpha), l.gfk_times_pk)))
    /\ FLe(ret.fval, FAdd(l.old_old_fval,
                          XMul(XMul(XDec(4), ret.alpha), l.gfk_times_pk)))

\* Hk = A1 Hk A2 + rhok sk sk^T
NWithH(l, Hk) ==
    IF ~XMatNum(Hk) THEN LSOutside(l) ELSE [l EXCEPT !.Hk = Hk, !.pc = "loop"]
NBFGS(l, rhok, I) ==
    NWithH(l, XMatAdd(XMatMul(XMatSub(I, XMatScale(rhok, XOuter(l.sk, l.yk))),
                              XMatMul(l.Hk,
                                      XMatSub(I, XMatScale(rhok, XOuter(l.yk, l.sk))))),
                      XMatScale(rhok, XOuter(l.sk, l.sk))))
\* rhok = 1 / (yk.sk), or 1000 when yk.sk is 0
NUpdate(l, rhok_inv) ==
    IF ~XNum(rhok_inv) THEN LSOutside(l)
    ELSE NBFGS(l, IF rhok_inv = XZero THEN XInt(1000) ELSE XInv(rhok_inv),
               XEye(Len(l.xk)))
\* "k += 1", gnorm, "if (gnorm <= gtol): break", and the break with
\* warnflag = 2 "if not np.isfinite(old_fval)"
NNorm(l) ==
    IF ~(XNum(l.gnorm) /\ XVNum(l.yk) /\ XVNum(l.xk) /\ XVNum(l.vk)) THEN LSOutside(l)
    ELSE IF XLe(l.gnorm, Xgtol) THEN [l EXCEPT !.pc = "break"]
    ELSE IF XSpecial(l.old_fval) THEN [l EXCEPT !.warnflag = 2, !.pc = "break"]
    ELSE NUpdate(l, XDot(l.yk, l.sk))
NWithYk(l, yk) ==
    NNorm([l EXCEPT !.yk = yk, !.k = @ + 1, !.gnorm = Xvecnorm2(l.gfk)])
\* "global convergence", with gnorm of the iteration before
NDamp(l, gfkp1, yk) ==
    IF ~(XNum(XDot(l.sk, yk)) /\ XCmpNum(XDec(2), l.gnorm)) THEN LSOutside(l)
    ELSE NWithYk([l EXCEPT !.p_times_q = XDot(l.sk, yk), !.gfk = gfkp1],
                 XVAdd(yk, XVScale(XMul(XZeta(l.sk, yk, l.gnorm), l.gnorm), l.sk)))
\* gfkp1 is nan: yk and gnorm are nan, "gnorm <= gtol" is False, a
\* non-finite old_fval breaks with warnflag = 2; otherwise "rhok_inv == 0."
\* is False and Hk becomes nan
NNaN(l, gfkp1) ==
    IF XSpecial(l.old_fval)
    THEN [l EXCEPT !.p_times_q = XNaN, !.yk = gfkp1, !.gfk = gfkp1, !.k = @ + 1,
                   !.gnorm = XNaN, !.warnflag = 2, !.pc = "break"]
    ELSE [l EXCEPT !.p_times_q = XNaN, !.yk = gfkp1, !.gfk = gfkp1, !.k = @ + 1,
                   !.gnorm = XNaN,
                   !.Hk = Tabulate(LAMBDA i : gfkp1, Len(gfkp1)), !.pc = "loop"]
NMoved(l, gfkp1) ==
    IF XVHasNaN(gfkp1) THEN NNaN(l, gfkp1)
    ELSE NDamp(l, gfkp1, XVSub(gfkp1, l.gfk))
\* vkp1, xkp1, "if retall: allvecs.append(xkp1)", "callback(xk)" with the
\* new xk (l.calls is the sequence of the arguments of the calls),
\* sk = xkp1 - (xk + muVal * vk), gfkp1 = myfprime(xkp1)
NWithStep(l, vkp1, xkp1, gnew) ==
    NMoved([l EXCEPT !.sk = XVSub(xkp1, XVAdd(l.xk, XVScale(l.mu, l.vk))),
                     !.allvecs = IF l.retall THEN Append(@, xkp1) ELSE @,
                     !.calls = IF l.callback THEN Append(@, xkp1) ELSE @,
                     !.xk = xkp1, !.vk = vkp1, !.fx = l.old_fval],
           IF xkp1 = l.xmuv THEN l.gfk ELSE gnew)
NWithVelocity(l, vkp1, gnew) == NWithStep(l, vkp1, XVAdd(l.xk, vkp1), gnew)
NMove(l, gnew) ==
    NWithVelocity(l, XVAdd(XVScale(l.mu, l.vk), XVScale(l.alpha_k, l.pk)), gnew)

\* the code before the while loop.  naq.py binds neither NAQ (line 165) nor
\* vecnorm (line 192) nor _status_message: unless the module's namespace has
\* been given them (l.names), the call ends in NameError
\* the entry without the test of np.isscalar(old_fval)
LSEntryUnchecked(l) ==
    IF l.alg = "naq" /\ ~l.names THEN LSRaise(l, "NameError")
    ELSE [l EXCEPT !.pc = "loop",
                   !.fshape = IF @ = "size1" THEN "scalar" ELSE @,
                   !.gnorm = IF XVHasNaN(l.gfk) THEN XNaN
                             ELSE IF l.alg = "naq" THEN Xvecnorm2(l.gfk)
                             ELSE XvecnormInf(l.gfk)]
\* "old_fval = f(x0)" and "if not np.isscalar(old_fval)": a one-element
\* array is replaced by old_fval.item(), and ValueError is raised for an
\* array .item() fails on; the value itself (nan, inf) is not looked at
LSEntry(l) ==
    IF l.alg = "naq" /\ ~l.names THEN LSRaise(l, "NameError")
    ELSE IF l.fshape = "array" THEN LSRaise(l, "ValueError")
    ELSE [l EXCEPT !.pc = "loop",
                   !.fshape = IF @ = "size1" THEN "scalar" ELSE @,
                   !.gnorm = IF XVHasNaN(l.gfk) THEN XNaN
                             ELSE IF l.alg = "naq" THEN Xvecnorm2(l.gfk)
                             ELSE XvecnormInf(l.gfk)]

\* the status with the test of the count made before the test of the flag
LSStatusCountFirst(l) ==
    [l EXCEPT !.pc = "done",
              !.warnflag = IF l.k >= l.maxiter THEN 1
                           ELSE IF l.warnflag = 2 THEN 2
                           ELSE IF XIsNaN(l.gnorm) \/ XIsNaN(l.old_fval)
                                   \/ XVHasNaN(l.xk) THEN 3
                           ELSE 0]
\* the status with the test of nan made before the test of the count
LSStatusNaNFirst(l) ==
    [l EXCEPT !.pc = "done",
              !.warnflag = IF l.warnflag = 2 THEN 2
                           ELSE IF XIsNaN(l.gnorm) \/ XIsNaN(l.old_fval)
                                   \/ XVHasNaN(l.xk) THEN 3
                           ELSE IF l.k >= l.maxiter THEN 1
                           ELSE 0]
\* the block after the loop that sets the status
LSStatus(l) ==
    [l EXCEPT !.pc = "done",
              !.warnflag = IF l.warnflag = 2 THEN 2
                           ELSE IF l.k >= l.maxiter THEN 1
                           ELSE IF XIsNaN(l.gnorm) \/ XIsNaN(l.old_fval)
                                   \/ XVHasNaN(l.xk) THEN 3
                           ELSE 0]

(***************************************************************************)
(* State.  cg is one call of CG_Steinhaug_matFree, tr one run of a         *)
(* trust-region driver, ls one run of a line-search driver.                *)
(***************************************************************************)
VARIABLES cg, tr, ls

vars == <<cg, tr, ls>>

Idle == [pc |-> "idle"]

(***************************************************************************)
(* SpecCG: every call of the solver on a valid argument (deltak > 0, S and *)
(* Y of equal shape, zero columns included).                               *)
(***************************************************************************)
MaxCols == 2

V2(a, b) == <<Rat(a, 1), Rat(b, 1)>>
CGEps == {Thresh(One, 10), Thresh(<<3, 2>>, 0)}
CGGrads == {V2(0, 0), V2(1, 0), V2(1, 1), V2(0, -1)}
CGDeltas == {Rat(1, 4), Rat(3, 5), Two}
CGCols == {<<V2(1, 0), V2(2, 1)>>, <<V2(0, 1), V2(1, 3)>>, <<V2(1, 1), V2(1, 0)>>,
           <<V2(1, 0), V2(-1, 0)>>, <<V2(1, 0), V2(0, 1)>>}
\* the stores of at most MaxCols columns, as sequences of <<s, y>>
CGStores == UNION {[1..n -> CGCols] : n \in 0..MaxCols}

CGInit ==
    /\ \E e \in CGEps, g \in CGGrads, dl \in CGDeltas, st \in CGStores :
          cg = [pc |-> "call", exit |-> "", epsTR |-> e, g |-> g, deltak |-> dl,
                S |-> [i \in DOMAIN st |-> st[i][1]],
                Y |-> [i \in DOMAIN st |-> st[i][2]],
                zOld |-> VZero(Len(g)), rOld |-> g, dOld |-> VNeg(g),
                pk |-> RatVec(VZero(Len(g))), Minv |-> <<>>, j |-> 0]
    /\ tr = Idle
    /\ ls = Idle

\* the call, up to the while loop
CGCall ==
    /\ cg.pc = "call"
    /\ cg' = CGEntry(cg.epsTR, cg.g, cg.deltak, cg.S, cg.Y)
    /\ cg'.pc # "outside"
    /\ UNCHANGED <<tr, ls>>

\* one pass of the while loop
CGLoop ==
    /\ cg.pc = "loop"
    /\ cg' = CGBody(cg)
    /\ cg'.pc # "outside"
    /\ UNCHANGED <<tr, ls>>

CGNext == CGCall \/ CGLoop

SpecCG == CGInit /\ [][CGNext]_vars

\* C1: whichever exit CG_Steinhaug_matFree returns through, the step it returns
\* satisfies ||pk|| <= deltak (exactly, in real arithmetic; the claim's relative
\* slack 1e-8 is room for rounding on top of this)
C1_StepWithinRadius ==
    cg.pc = "return" => SurdNormSqLe(cg.pk, RSq(cg.deltak))

\* C1 witness: the boundary is crossed from an interior iterate z # 0, after one
\* full pass of the loop, and the step returned lies on the boundary
C1_Witness ==
    /\ cg.pc = "return"
    /\ cg.exit = "boundary"
    /\ cg.j >= 1
    /\ cg.zOld # VZero(2)
    /\ SurdNormSq(cg.pk).u = RSq(cg.deltak)

(***************************************************************************)
(* SpecTR: runs of _minimize_sr1, _minimize_sr1n and _minimize_mosr1 on    *)
(* two variables, from x0 = 0, with the values f and its gradient return   *)
(* drawn from small sets.                                                  *)
(***************************************************************************)
MaxIter == 2

TRAlgs == {"sr1", "sr1n", "mosr1"}
TRMems == {2}
FVals == {Zero, One, Two}
GVals == {V2(0, 0), V2(1, 0), V2(0, -1), V2(0, -2)}
Probes == {[r |-> V2(1, 0), y |-> V2(2, 0)], [r |-> V2(0, 1), y |-> V2(0, 2)],
           [r |-> V2(1, 0), y |-> V2(0, 1)], [r |-> V2(1, 1), y |-> V2(-1, 0)]}

TRInit ==
    /\ cg = Idle
    /\ ls = Idle
    /\ \E alg \in TRAlgs, m \in TRMems, g0 \in GVals :
          LET t0 == [pc |-> "loop", exc |-> "", alg |-> alg, m |-> m, maxiter |-> MaxIter,
                     k |-> 0, deltak |-> One, theta_k |-> One, mu |-> Zero,
                     xk |-> VZero(2), vk |-> VZero(2), gfk |-> g0, gfkm1 |-> g0,
                     gx |-> g0, old_fval |-> Two, gnorm |-> vecnorm(g0), warnflag |-> 0,
                     S |-> <<>>, Y |-> <<>>, Bksk |-> VZero(2), sampled |-> 0,
                     agfk |-> g0, xmu |-> VZero(2), sk_TR |-> VZero(2),
                     Bk_skTR |-> VZero(2), pred |-> Zero, yk |-> VZero(2),
                     rho |-> Ratio(Zero, Zero), accepted |-> FALSE, appended |-> FALSE,
                     damp |-> [raw |-> VZero(2), gnorm |-> vecnorm(g0)]]
          IN  tr = t0 @@ [pre |-> TRFrame(t0)]

\* a pass of "while (gnorm > gtol) and (k < maxiter)", up to pred
TRPropose ==
    /\ tr.pc = "loop"
    /\ GtThresh(tr.gnorm, gtol) /\ tr.k < tr.maxiter
    /\ \E probes \in (IF tr.k = 0 THEN [1..tr.m -> Probes] ELSE {<<>>}),
          gtop \in (IF tr.alg = "sr1n" /\ tr.k > 0 THEN GVals ELSE {tr.gx}) :
          /\ tr' = TRSolve(TRHead(tr, probes, gtop))
          /\ tr'.pc # "outside"
    /\ UNCHANGED <<cg, ls>>

\* the rest of the pass
TRTake ==
    /\ tr.pc = "step"
    /\ \E fnew \in FVals, gnew \in GVals :
          /\ tr' = TRTakeStep(tr, fnew, gnew)
          /\ tr'.pc # "outside"
    /\ UNCHANGED <<cg, ls>>

\* the loop is left, by its condition or by break, and the result is built
TRReturn ==
    /\ \/ tr.pc = "break"
       \/ tr.pc = "loop" /\ ~(GtThresh(tr.gnorm, gtol) /\ tr.k < tr.maxiter)
    /\ tr' = TRStatus(tr)
    /\ UNCHANGED <<cg, ls>>

TRNext == TRPropose \/ TRTake \/ TRReturn

SpecTR == TRInit /\ [][TRNext]_vars

(***************************************************************************)
(* SpecLS: runs of _minimize_lbfgs and _minimize_naq on two variables,     *)
(* from x0 = 0 with f(x0) = 1 and empty stores, with the values f and its  *)
(* gradient return drawn from small sets.                                  *)
(***************************************************************************)
XV2(a, b) == <<XInt(a), XInt(b)>>
LSAlgs == {"lbfgs", "naq"}
LFVals(alg) ==
    IF alg = "lbfgs" THEN {XInt(-1), XZero, XInt(2)} ELSE {XInt(-1), XInt(2), XInf}
\* gradients: of the order of 1e5 for _minimize_lbfgs, so that the first step,
\* 1e-10 times the gradient, and the change of the gradient along it can be
\* added; of the order of 1 for _minimize_naq
LGVals(alg) ==
    IF alg = "lbfgs"
    THEN {XV2(0, 0), XV2(100000, 0), XV2(200000, 0), XV2(100000, -200000000)}
    ELSE {XV2(0, 0), XV2(1, 0), XV2(2, 0)}

LineSearches == {"armijo", "wolfe"}
WolfeRets(alg) ==
    {NoStep} \cup [alpha : {XOne, XHalf}, fval : LFVals(alg)]

\* retall: "if retall: allvecs = [x0]"; _minimize_naq appends xkp1 in each
\* pass, in _minimize_lbfgs the append is commented out.
\* callback: a callback is supplied; _minimize_naq calls it in each pass, in
\* _minimize_lbfgs the call is commented out.
\* what f(x0) returns: a scalar, an array of one element or of several, and
\* its value (the value of an array of several elements is not used)
FShapes == {"scalar", "size1", "array"}
\* the option etol of _minimize_lbfgs; _minimize_naq has no such option
Etols == {None, XZero}
F0Vals == {XOne, XNaN, XInf}
LSInit ==
    /\ cg = Idle
    /\ tr = Idle
    /\ \E alg \in LSAlgs, names \in BOOLEAN, lists \in BOOLEAN,
          lineSearch \in LineSearches, fshape \in FShapes, f0 \in F0Vals,
          etol \in Etols, retall \in BOOLEAN, callback \in BOOLEAN,
          g0 \in LGVals("lbfgs") \cup LGVals("naq") \cup {XVNaN(2)} :
          /\ alg = "lbfgs" => names /\ lineSearch = "armijo"
          /\ alg = "naq" => lists
          /\ g0 \in LGVals(alg) \cup {XVNaN(2)}
          /\ fshape = "array" => f0 = XOne
          /\ alg = "naq" => etol = None
          \* the two observers have no effect on each other or on the run;
          \* the runs followed have both or neither
          /\ callback = retall
          /\ LET l0 == [pc |-> "call", exc |-> "", alg |-> alg, names |-> names,
                        lists |-> lists, lineSearch |-> lineSearch,
                        fshape |-> fshape, f0 |-> f0, etol |-> etol,
                        retall |-> retall, callback |-> callback, calls |-> <<>>,
                        allvecs |-> IF retall THEN <<XVZero(2)>> ELSE <<>>,
                        m |-> 10, maxiter |-> MaxIter, mu |-> XOf(<<9, 10>>, 0, 0),
                        k |-> 0, xk |-> XVZero(2), vk |-> XVZero(2), gfk |-> g0,
                        Hk |-> XEye(2), sk_vec |-> <<>>, yk_vec |-> <<>>,
                        old_fval |-> f0, old_old_fval |-> f0, fx |-> f0,
                        gnorm |-> XZero, warnflag |-> 0, pk |-> XVZero(2),
                        xmuv |-> XVZero(2), gfk_times_pk |-> XZero,
                        alpha_k |-> XOne, LHS |-> XOne, RHS |-> XOne, line1 |-> 0,
                        search |-> "none", sk |-> XVZero(2), yk |-> XVZero(2),
                        p_times_q |-> XZero]
             IN  ls = l0 @@ [pre |-> LSFrame(l0)]

\* the call, up to the while loop
LSCall ==
    /\ ls.pc = "call"
    /\ ls' = LSEntry(ls)
    /\ ls'.pc # "outside"
    /\ UNCHANGED <<cg, tr>>

\* a pass of "while (gnorm > gtol) and (k < maxiter)", up to the Armijo loop
LSDirection ==
    /\ ls.pc = "loop"
    /\ AboveGtol(ls.gnorm) /\ ls.k < ls.maxiter
    /\ \E fv \in LFVals(ls.alg),
          gtop \in (IF ls.alg = "naq" /\ ls.k > 0 THEN LGVals(ls.alg) ELSE {ls.gfk}) :
          /\ ls' = IF ls.alg = "lbfgs" THEN LDirection(ls, fv)
                   ELSE NDirection(ls, gtop, fv)
          /\ ls'.pc # "outside"
    /\ UNCHANGED <<cg, tr>>

\* one pass of the Armijo loop
LSTrial ==
    /\ ls.pc = "armijo"
    /\ \E fv \in LFVals(ls.alg) :
          /\ ls' = IF ls.alg = "lbfgs" THEN LTrial(ls, fv) ELSE NTrial(ls, fv)
          /\ ls'.pc # "outside"
    /\ UNCHANGED <<cg, tr>>

\* the search of lineSearch = 'wolfe'
LSWolfe ==
    /\ ls.pc = "wolfe"
    /\ \E fv \in LFVals(ls.alg), ret1 \in WolfeRets(ls.alg), ret2 \in WolfeRets(ls.alg) :
          /\ ret1 # NoStep => WolfeStep(ls, fv, ret1) /\ ret2 = NoStep
          /\ ret2 # NoStep => WolfeStep(ls, fv, ret2)
          /\ ls' = NWolfe(ls, fv, ret1, ret2)
    /\ UNCHANGED <<cg, tr>>

\* the rest of the pass: the step and the update
LSStep ==
    /\ ls.pc = "move"
    /\ \E gnew \in LGVals(ls.alg) \cup {XVNaN(2)} :
          /\ ls' = IF ls.alg = "lbfgs" THEN LMove(ls, gnew) ELSE NMove(ls, gnew)
          /\ ls'.pc # "outside"
    /\ UNCHANGED <<cg, tr>>

\* the loop is left, by its condition or by break, and the result is built
LSReturn ==
    /\ \/ ls.pc = "break"
       \/ ls.pc = "loop" /\ ~(AboveGtol(ls.gnorm) /\ ls.k < ls.maxiter)
    /\ ls' = LSStatus(ls)
    /\ UNCHANGED <<cg, tr>>

LSNext == LSCall \/ LSDirection \/ LSTrial \/ LSWolfe \/ LSStep \/ LSReturn

SpecLS == LSInit /\ [][LSNext]_vars

\* a pass of the loop has just finished (ratio test, radius update, step)
AfterPass == tr.pc \in {"loop", "break"} /\ tr.k >= 1

\* C6: in each pass the radius is doubled if ared/pred > 0.75, halved if
\* ared/pred < 0.1 and kept otherwise, and no other step of a run changes it
C6_RadiusRule ==
    [][tr.pc # "idle" =>
        tr'.deltak = IF tr.pc # "step" THEN tr.deltak
                     ELSE IF RatioGt(tr'.rho, <<3, 4>>) THEN RMul(Two, tr.deltak)
                     ELSE IF RatioLt(tr'.rho, <<1, 10>>) THEN RMul(tr.deltak, Half)
                     ELSE tr.deltak]_vars
\* a run that doubled the radius once, kept it once and halved it once
C6_Witness ==
    /\ AfterPass /\ tr.k = 2 /\ tr.deltak = Two
    /\ tr.rho.kind = "num" /\ RLe(<<1, 10>>, tr.rho.v) /\ RLe(tr.rho.v, <<3, 4>>)

RECURSIVE PowerOfTwo(_)
PowerOfTwo(n) == n = 1 \/ (n > 1 /\ n % 2 = 0 /\ PowerOfTwo(n \div 2))

C8_RadiusBounded ==
    tr.pc # "idle" =>
        /\ tr.k <= tr.maxiter
        /\ RLe(Rat(1, 2^tr.k), tr.deltak)
        /\ RLe(tr.deltak, Rat(2^tr.k, 1))
\* two passes that both doubled the radius: the upper bound is attained
C8_Witness == AfterPass /\ tr.k = 2 /\ tr.deltak = <<4, 1>>

\* C3: the store never holds more than m pairs
C3_StoreWithinMemory == tr.pc # "idle" => Len(tr.S) <= tr.m /\ Len(tr.Y) <= tr.m

\* C5: a pass after the first that rejects its step leaves x, v, theta, the
\* stored pairs and the stored gradients as they were when the pass began
C5_RejectedStepFrame ==
    (AfterPass /\ tr.k >= 2 /\ ~tr.accepted) =>
        /\ tr.xk = tr.pre.xk /\ tr.vk = tr.pre.vk
        /\ tr.theta_k = tr.pre.theta_k
        /\ tr.S = tr.pre.S /\ tr.Y = tr.pre.Y
        /\ tr.gfk = tr.pre.gfk /\ tr.gfkm1 = tr.pre.gfkm1

(***************************************************************************)
(* Spec: every run of the three machines                                   *)
(***************************************************************************)
(***************************************************************************)
(* The adaptive momentum of _minimize_lnaq, _minimize_naq (mu = 'adaptive') *)
(* and _minimize_mosr1 on its own: theta_k, theta_kp1 and mu over the       *)
(* passes of the main loop.  theta_kp1 is irrational from the first pass    *)
(* on, so theta_k and mu are each kept as a pair <<lo, hi>> of integers     *)
(* with lo / ThetaGrid <= value <= hi / ThetaGrid; the pair of an exact     *)
(* value has lo = hi.                                                      *)
(***************************************************************************)
ThetaGrid == 10^5
MaxMomentum == 80
\* the sum of the products of the terms of T, and "sum of A <= sum of B",
\* for terms that are sequences of naturals; no product overflows
RECURSIVE ProdBig(_)
ProdBig(f) == IF f = <<>> THEN <<1>> ELSE BigMul(BigOf(Head(f)), ProdBig(Tail(f)))
RECURSIVE SumBig(_)
SumBig(T) ==
    IF T = <<>> THEN <<>> ELSE BigNorm(BigAdd(ProdBig(Head(T)), SumBig(Tail(T)), 0))
SumLe(A, B) == BigCmp(SumBig(A), SumBig(B)) <= 0
\* c / ThetaGrid is not above theta_kp1, the positive root of
\* t^2 + (theta_k^2 - gamma) t - theta_k^2, for theta_k = h / ThetaGrid and
\* gamma = g[1] / g[2]
BelowRoot(h, g, c) ==
    SumLe(<<<<c, c, ThetaGrid, g[2]>>, <<c, h, h, g[2]>>>>,
          <<<<h, h, ThetaGrid, g[2]>>, <<c, g[1], ThetaGrid, ThetaGrid>>>>)
RECURSIVE ThetaBisect(_, _, _, _)
ThetaBisect(h, g, lo, hi) ==
    IF hi - lo <= 1 THEN lo
    ELSE IF BelowRoot(h, g, (lo + hi) \div 2) THEN ThetaBisect(h, g, (lo + hi) \div 2, hi)
    ELSE ThetaBisect(h, g, lo, (lo + hi) \div 2)
\* the grid point at or below theta_kp1, which is at most 1 for theta_k <= 1
\* and gamma <= 1
ThetaFloor(h, g) ==
    IF BelowRoot(h, g, ThetaGrid) THEN ThetaGrid ELSE ThetaBisect(h, g, 0, ThetaGrid)
\* c / ThetaGrid is theta_kp1
AtRoot(h, g, c) ==
    /\ BelowRoot(h, g, c)
    /\ SumLe(<<<<h, h, ThetaGrid, g[2]>>, <<c, g[1], ThetaGrid, ThetaGrid>>>>,
             <<<<c, c, ThetaGrid, g[2]>>, <<c, h, h, g[2]>>>>)
\* the grid point at or above theta_kp1, given the one at or below it
ThetaCeilFrom(h, g, c) == IF AtRoot(h, g, c) THEN c ELSE c + 1
ThetaCeil(h, g) == ThetaCeilFrom(h, g, ThetaFloor(h, g))
\* the recurrence without its gamma
theta_kp1NoGamma(th, g) ==
    <<ThetaFloor(th[1], <<0, 1>>), ThetaCeil(th[2], <<0, 1>>)>>
\* theta_kp1 = ((gamma - theta_k^2) + sqrt((gamma - theta_k^2)^2 + 4 theta_k^2)) / 2,
\* which grows with theta_k
theta_kp1(th, g) == <<ThetaFloor(th[1], g), ThetaCeil(th[2], g)>>
\* where theta_k * (1 - theta_k) is least and where it is largest over th
Off(h) == Abs(2 * h - ThetaGrid)
MuNumMinAt(th) == IF Off(th[1]) >= Off(th[2]) THEN th[1] ELSE th[2]
MuNumMaxAt(th) ==
    IF 2 * th[1] <= ThetaGrid /\ ThetaGrid <= 2 * th[2] THEN ThetaGrid \div 2
    ELSE IF Off(th[1]) <= Off(th[2]) THEN th[1] ELSE th[2]
\* m / ThetaGrid is not above
\* (theta_k * (1 - theta_k)) / (theta_k * theta_k + theta_kp1) taken with
\* theta_k = hn / ThetaGrid above the line, hd / ThetaGrid and
\* theta_kp1 = c / ThetaGrid below it
BelowMu(hn, hd, c, m) ==
    SumLe(<<<<m, hd, hd>>, <<m, c, ThetaGrid>>>>, <<<<ThetaGrid, hn, ThetaGrid - hn>>>>)
RECURSIVE MuBisect(_, _, _, _, _)
MuBisect(hn, hd, c, lo, hi) ==
    IF hi - lo <= 1 THEN lo
    ELSE IF BelowMu(hn, hd, c, (lo + hi) \div 2) THEN MuBisect(hn, hd, c, (lo + hi) \div 2, hi)
    ELSE MuBisect(hn, hd, c, lo, (lo + hi) \div 2)
\* the grid point at or below the quotient, and one at or above it
MuFloor(hn, hd, c) == MuBisect(hn, hd, c, 0, 2 * ThetaGrid)
MuCeil(hn, hd, c) ==
    IF hn = 0 \/ hn = ThetaGrid THEN 0
    ELSE IF hd = 0 /\ c = 0 THEN 2 * ThetaGrid
    ELSE MuFloor(hn, hd, c) + 1
\* the quotient with theta_kp1 in place of theta_k above the line
MuRawNext(th, tn) ==
    <<MuFloor(MuNumMinAt(tn), th[2], tn[2]), MuCeil(MuNumMaxAt(tn), th[1], tn[1])>>
\* (theta_k * (1 - theta_k)) / (theta_k * theta_k + theta_kp1)
MuRaw(th, tn) ==
    <<MuFloor(MuNumMinAt(th), th[2], tn[2]), MuCeil(MuNumMaxAt(th), th[1], tn[1])>>
\* np.minimum(mu, mu_clip)
Clipped(mu, clip) == <<Min(mu[1], clip), Min(mu[2], clip)>>
\* the mu of a pass: _minimize_lnaq clips at mu_clip, _minimize_naq at
\* 0.95, _minimize_mosr1 does not clip
MuOf(c, tn) ==
    IF c.alg = "mosr1" THEN MuRaw(c.theta_k, tn)
    ELSE Clipped(MuRaw(c.theta_k, tn), c.mu_clip)

MUAlgs == {"lnaq", "naq", "mosr1"}
\* gamma: 1e-5 in _minimize_lnaq and _minimize_mosr1, an option of _minimize_naq
MUGammas(alg) ==
    IF alg = "naq" THEN {<<0, 1>>, <<1, 100000>>, <<1, 100>>, <<1, 2>>, <<1, 1>>}
    ELSE {<<1, 100000>>}
\* mu_clip: an option of _minimize_lnaq (default 0.95), 0.95 in _minimize_naq;
\* for _minimize_mosr1, which has none, the default of the option
MUClips(alg) ==
    IF alg = "lnaq" THEN {(ThetaGrid * 95) \div 100, (ThetaGrid * 99) \div 100, ThetaGrid \div 2}
    ELSE {(ThetaGrid * 95) \div 100}
MUInit ==
    /\ tr = Idle
    /\ ls = Idle
    /\ \E alg \in MUAlgs, g \in MUGammas("naq") \cup MUGammas("lnaq"),
          clip \in MUClips("lnaq") :
          /\ g \in MUGammas(alg)
          /\ clip \in MUClips(alg)
          /\ cg = [pc |-> "momentum", alg |-> alg, gamma |-> g, mu_clip |-> clip,
                   n |-> 0, theta_k |-> <<ThetaGrid, ThetaGrid>>,
                   used |-> <<0, 0>>, mu |-> <<0, 0>>]
\* a pass of the main loop: theta_kp1, mu, theta_k = theta_kp1; a pass of
\* _minimize_mosr1 that rejects its step ends with "theta_k = 1".  c.used is
\* the theta_k that mu was computed from (<<0, 0>> before the first pass),
\* c.n the number of passes since theta_k was 1
MUWith(c, tn, accepted) ==
    IF c.alg = "mosr1" /\ ~accepted
    THEN [c EXCEPT !.n = 0, !.used = c.theta_k, !.mu = MuOf(c, tn),
                   !.theta_k = <<ThetaGrid, ThetaGrid>>]
    ELSE [c EXCEPT !.n = @ + 1, !.used = c.theta_k, !.mu = MuOf(c, tn),
                   !.theta_k = tn]
MUPassed == cg.pc = "momentum" /\ cg.used # <<0, 0>>
MUPass ==
    /\ cg.pc = "momentum"
    /\ cg.n < MaxMomentum
    /\ \E accepted \in BOOLEAN :
          cg' = MUWith(cg, theta_kp1(cg.theta_k, cg.gamma), accepted)
    /\ UNCHANGED <<tr, ls>>
MUNext == MUPass
SpecMU == MUInit /\ [][MUNext]_vars

(***************************************************************************)
(* _minimize_lbfgs on a strictly convex quadratic of two variables,         *)
(*   f(x) = (a[1] x[1]^2 + a[2] x[2]^2) / 2 + g0 . x,                       *)
(* from x0 = 0 with m = 10 >= n = 2 and maxiter = n: the passes of the LS   *)
(* machine, with f and the gradient computed from the quadratic.            *)
(***************************************************************************)
\* m * 10^e
XSci(m, e) == XOf(<<m, 1>>, e, e)
QF(q, x) ==
    XAdd(XMul(XHalf, XAdd(XMul(q.a[1], XMul(x[1], x[1])), XMul(q.a[2], XMul(x[2], x[2])))),
         XAdd(XMul(q.g0[1], x[1]), XMul(q.g0[2], x[2])))
QGrad(q, x) ==
    <<XAdd(XMul(q.a[1], x[1]), q.g0[1]), XAdd(XMul(q.a[2], x[2]), q.g0[2])>>
QCurvatures == {XSci(1, 10), XSci(2, 10), XSci(4, 10)}
QSlopes == {XZero, XSci(5, 9), XSci(-5, 9), XSci(1, 10)}
Quadratics == [a : QCurvatures \X QCurvatures, g0 : QSlopes \X QSlopes]
QMems == {1, 10}
QInit ==
    /\ cg = Idle
    /\ tr = Idle
    /\ \E q \in Quadratics, m \in QMems, maxiter \in {MaxIter, MaxIter + 1} :
          LET l0 == [pc |-> "call", exc |-> "", alg |-> "lbfgs", names |-> TRUE,
                     lists |-> TRUE, lineSearch |-> "armijo",
                     fshape |-> "scalar", f0 |-> XZero, etol |-> None,
                     retall |-> FALSE, callback |-> FALSE, calls |-> <<>>,
                     allvecs |-> <<>>, quad |-> q,
                     m |-> m, maxiter |-> maxiter, mu |-> XOf(<<9, 10>>, 0, 0),
                     k |-> 0, xk |-> XVZero(2), vk |-> XVZero(2), gfk |-> q.g0,
                     Hk |-> XEye(2), sk_vec |-> <<>>, yk_vec |-> <<>>,
                     old_fval |-> XZero, old_old_fval |-> XZero, fx |-> XZero,
                     gnorm |-> XZero, warnflag |-> 0, pk |-> XVZero(2),
                     xmuv |-> XVZero(2), gfk_times_pk |-> XZero,
                     alpha_k |-> XOne, LHS |-> XOne, RHS |-> XOne, line1 |-> 0,
                     search |-> "none", sk |-> XVZero(2), yk |-> XVZero(2),
                     p_times_q |-> XZero]
          IN  ls = l0 @@ [pre |-> LSFrame(l0)]
QCall ==
    /\ ls.pc = "call"
    /\ ls' = LSEntry(ls)
    /\ UNCHANGED <<cg, tr>>
\* f(xk + pk) for the pk of the pass
QDirection ==
    /\ ls.pc = "loop"
    /\ AboveGtol(ls.gnorm) /\ ls.k < ls.maxiter
    /\ ls' = LDirection(ls, QF(ls.quad,
                               XVAdd(ls.xk, LDirectionOf(ls.gfk, ls.sk_vec, ls.yk_vec,
                                                         ls.k, ls.m))))
    /\ ls'.pc # "outside"
    /\ UNCHANGED <<cg, tr>>
\* f(xk + alpha_k * pk) for the halved alpha_k
QTrial ==
    /\ ls.pc = "armijo"
    /\ ls' = LTrial(ls, QF(ls.quad,
                           XVAdd(ls.xk, XVScale(XMul(ls.alpha_k, XHalf), ls.pk))))
    /\ ls'.pc # "outside"
    /\ UNCHANGED <<cg, tr>>
\* gfkp1 = myfprime(xk) at the new xk
QStep ==
    /\ ls.pc = "move"
    /\ ls' = LMove(ls, QGrad(ls.quad, XVAdd(ls.xk, XVScale(ls.alpha_k, ls.pk))))
    /\ ls'.pc # "outside"
    /\ UNCHANGED <<cg, tr>>
QReturn ==
    /\ \/ ls.pc = "break"
       \/ ls.pc = "loop" /\ ~(AboveGtol(ls.gnorm) /\ ls.k < ls.maxiter)
    /\ ls' = LSStatus(ls)
    /\ UNCHANGED <<cg, tr>>
QNext == QCall \/ QDirection \/ QTrial \/ QStep \/ QReturn
SpecQ == QInit /\ [][QNext]_vars

(***************************************************************************)
(* Two calls of _minimize_lbfgs and the accumulator errPlot (timePlot,      *)
(* evalPlot, LS and GEV are declared and used the same way).  The default   *)
(* "errPlot=[]" of the def is one list object, made when the def is         *)
(* executed: it is c.errPlot, and a call that is not given errPlot appends  *)
(* to it.  A call that is given a list appends to that list, run.own; the   *)
(* two calls are never given the same list.  An entry <<i, k>> is the       *)
(* old_fval that call i appends after k passes; the calls run one after     *)
(* the other or interleaved.                                                *)
(***************************************************************************)
MaxRunIter == 2
Runs == {1, 2}
\* the list that the name errPlot is bound to in call i
errPlot(c, i) == IF c.run[i].passed THEN c.run[i].own ELSE c.errPlot
\* errPlot.append(v) in call i
AppendErr(c, i, v) ==
    IF c.run[i].passed THEN [c EXCEPT !.run[i].own = Append(@, v)]
    ELSE [c EXCEPT !.errPlot = Append(@, v)]
ACInit ==
    /\ tr = Idle
    /\ ls = Idle
    /\ \E passed \in [Runs -> BOOLEAN] :
          cg = [pc |-> "runs", errPlot |-> <<>>,
                run |-> [i \in Runs |-> [pc |-> "idle", passed |-> passed[i],
                                         own |-> <<>>, k |-> 0, seen |-> 0,
                                         out |-> <<>>]]]
\* the call up to the while loop: "errPlot.append(old_fval)"; seen is the
\* length of errPlot when the call starts
ACEnter(c, i) ==
    AppendErr([c EXCEPT !.run[i].pc = "loop", !.run[i].seen = Len(errPlot(c, i))],
              i, <<i, 0>>)
ACCall(i) ==
    /\ cg.pc = "runs"
    /\ cg.run[i].pc = "idle"
    /\ cg' = ACEnter(cg, i)
    /\ UNCHANGED <<tr, ls>>
\* a pass of the while loop: "k += 1" and "errPlot.append(old_fval)"
ACPass(i) ==
    /\ cg.pc = "runs"
    /\ cg.run[i].pc = "loop"
    /\ cg.run[i].k < MaxRunIter
    /\ cg' = AppendErr([cg EXCEPT !.run[i].k = @ + 1], i, <<i, cg.run[i].k + 1>>)
    /\ UNCHANGED <<tr, ls>>
\* the loop is left and the call returns; out is the list the caller finds
\* in errPlot
ACReturn(i) ==
    /\ cg.pc = "runs"
    /\ cg.run[i].pc = "loop"
    /\ cg' = [cg EXCEPT !.run[i].pc = "done", !.run[i].out = errPlot(cg, i)]
    /\ UNCHANGED <<tr, ls>>
ACNext == \E i \in Runs : ACCall(i) \/ ACPass(i) \/ ACReturn(i)
SpecAC == ACInit /\ [][ACNext]_vars

(***************************************************************************)
(* rootFinder called on its own: the arguments, then the value it returns. *)
(***************************************************************************)
RFArgs == {Rat(n, 1) : n \in -3..3}

RFInit ==
    /\ \E a \in RFArgs, b \in RFArgs, c \in RFArgs :
          cg = [pc |-> "rootFinder", a |-> a, b |-> b, c |-> c, ret |-> NoRoot]
    /\ tr = Idle
    /\ ls = Idle

RFCall ==
    /\ cg.pc = "rootFinder"
    /\ cg' = [cg EXCEPT !.pc = "returned", !.ret = rootFinder(cg.a, cg.b, cg.c)]
    /\ cg'.ret.kind # "outside"
    /\ UNCHANGED <<tr, ls>>

RFNext == RFCall

SpecRF == RFInit /\ [][RFNext]_vars

Init == CGInit \/ TRInit \/ LSInit \/ RFInit
Next == CGNext \/ TRNext \/ LSNext \/ RFNext
Spec == Init /\ [][Next]_vars

\* C9: when the Armijo loop ends without a trial passing, the run stops in
\* that iteration with status 2 and x is where the iteration found it
C9_ExhaustedSearchStops ==
    (ls.pc \notin {"idle", "move"} /\ ls.search = "exhausted") =>
        /\ ls.pc \in {"break", "done"}
        /\ ls.pc = "done" => ls.warnflag = 2
        /\ ls.xk = ls.pre.xk

\* C10: an iteration of _minimize_lbfgs that changes x does not increase f
C10_ArmijoDescent ==
    (ls.pc \in {"loop", "done"} /\ ls.alg = "lbfgs" /\ ls.k > ls.pre.k
     /\ ls.xk # ls.pre.xk /\ ~XSpecial(ls.pre.fx)) => XLe(ls.fx, ls.pre.fx)

\* Exact signs of sums of products.  A term is a sequence of factors, each
\* (n/d) 2^a 5^b; the terms of a sum are brought to one denominator and one
\* power of 2 and of 5 as digit sequences, so that no product leaves the range
RECURSIVE TermSign(_)
TermSign(f) == IF f = <<>> THEN 1 ELSE XSign(Head(f)) * TermSign(Tail(f))
RECURSIVE TermExp(_, _)
TermExp(f, c) == IF f = <<>> THEN 0 ELSE Head(f)[c] + TermExp(Tail(f), c)
RECURSIVE TermBig(_, _)
TermBig(f, c) ==
    IF f = <<>> THEN <<1>> ELSE BigMul(BigOf(Abs(Head(f)[c])), TermBig(Tail(f), c))
RECURSIVE MinExp(_, _)
MinExp(T, c) ==
    IF Len(T) = 1 THEN TermExp(T[1], c)
    ELSE Min(TermExp(Head(T), c), MinExp(Tail(T), c))
RECURSIVE OtherDens(_, _, _)
OtherDens(T, i, j) ==
    IF j > Len(T) THEN <<1>>
    ELSE BigMul(IF j = i THEN <<1>> ELSE TermBig(T[j], 2), OtherDens(T, i, j + 1))
TermScaled(T, i) ==
    BigPow(BigPow(BigMul(TermBig(T[i], 1), OtherDens(T, i, 1)),
                  2, TermExp(T[i], 3) - MinExp(T, 3)),
           5, TermExp(T[i], 4) - MinExp(T, 4))
RECURSIVE SideSum(_, _, _)
SideSum(T, sgn, i) ==
    IF i > Len(T) THEN <<>>
    ELSE BigAdd(IF TermSign(T[i]) = sgn THEN TermScaled(T, i) ELSE <<>>,
                SideSum(T, sgn, i + 1), 0)
NonZeroTerm(f) == TermSign(f) # 0
SumSignOf(T) == IF T = <<>> THEN 0 ELSE BigCmp(SideSum(T, 1, 1), SideSum(T, -1, 1))
\* the sign of the sum of the terms T
XSumSign(T) == SumSignOf(SelectSeq(T, NonZeroTerm))
\* the sign of s.y
DotSign(s, y) == XSumSign(Tabulate(LAMBDA i : <<s[i], y[i]>>, Len(s)))

\* C2: every pair that a driver with a global-convergence term (mosr1, sr1n,
\* lbfgs) appends to its store has s.y > 0, y being the damped value
C2_AppendedPairsPositive ==
    /\ (AfterPass /\ tr.alg # "sr1" /\ tr.appended) =>
          RSign(Dot(tr.sk_TR, tr.yk)) > 0
    /\ ls.pc # "idle" =>
          \A i \in 1..Len(ls.sk_vec) : DotSign(ls.sk_vec[i], ls.yk_vec[i]) > 0

\* the drivers that apply yk + zeta * gnorm * sk (lbfgs, sr1n) append only
\* pairs with s.y > 0, also when the raw difference had s.y < 0
ZetaDampedPairsPositive ==
    /\ (AfterPass /\ tr.alg = "sr1n" /\ tr.appended) =>
          RSign(Dot(tr.sk_TR, tr.yk)) > 0
    /\ ls.pc # "idle" =>
          \A i \in 1..Len(ls.sk_vec) :
             ~XVHasNaN(ls.yk_vec[i]) => DotSign(ls.sk_vec[i], ls.yk_vec[i]) > 0
\* a pair of _minimize_lbfgs whose raw difference had s.y < 0 is in the store
RawNegativeStored ==
    /\ ls.pc = "loop" /\ ls.alg = "lbfgs" /\ ls.k >= 1
    /\ XSign(ls.p_times_q) < 0
    /\ ls.sk_vec[Len(ls.sk_vec)] = ls.sk

\* the condition s.y > eps ||y|| ||s|| with eps = sqrt(np.finfo(float).eps) =
\* 2^-26, on squares: s.y > 0 and (s.y)^2 - eps^2 (y.y) (s.s) > 0
SquareTerms(s, y) ==
    Tabulate(LAMBDA k : <<s[((k - 1) \div Len(s)) + 1], y[((k - 1) \div Len(s)) + 1],
                          s[((k - 1) % Len(s)) + 1], y[((k - 1) % Len(s)) + 1]>>,
             Len(s) * Len(s))
NormTerms(s, y) ==
    Tabulate(LAMBDA k : <<<<-1, 1, -52, 0>>,
                          y[((k - 1) \div Len(s)) + 1], y[((k - 1) \div Len(s)) + 1],
                          s[((k - 1) % Len(s)) + 1], s[((k - 1) % Len(s)) + 1]>>,
             Len(s) * Len(s))
CurvatureCondition(s, y) ==
    /\ DotSign(s, y) > 0
    /\ XSumSign(SquareTerms(s, y) \o NormTerms(s, y)) > 0

\* C4: a pair is in the store of _minimize_lbfgs only if it passes the
\* curvature condition s.y > eps ||y|| ||s||
C4_StoredPairsTested ==
    ls.pc # "idle" =>
        \A i \in 1..Len(ls.sk_vec) : CurvatureCondition(ls.sk_vec[i], ls.yk_vec[i])

\* the test of the trust-region drivers on the pair of the pass that ends
TRPassed ==
    GtEps(Dot(VSub(tr'.yk, tr.Bk_skTR), tr.sk_TR),
          RMul(BroadcastNormSq(tr'.yk, tr.Bksk), NormSq(tr.sk_TR)))
\* the pass forms a pair: the step is accepted, or the driver is mosr1
TRFormsPair == tr'.accepted \/ tr.alg = "mosr1"

\* in the trust-region drivers the second half of a pass changes the store
\* only by appending the pair of the pass, and only if the pair passes the
\* test |(y - B s).s| > eps ||y - Bksk|| ||s||; a pair that fails it is
\* dropped, the store stays as it was and the run goes on without an error
TRAppendOnlyTested ==
    [][tr.pc = "step" =>
        /\ (tr'.S # tr.S \/ tr'.Y # tr.Y) =>
              /\ TRFormsPair /\ TRPassed
              /\ tr'.S = LastCols(Append(tr.S, tr.sk_TR), 10)
              /\ tr'.Y = LastCols(Append(tr.Y, tr'.yk), 10)
        /\ (TRFormsPair /\ ~TRPassed) =>
              /\ tr'.S = tr.S /\ tr'.Y = tr.Y
              /\ tr'.pc \in {"loop", "break"}]_vars
\* an accepted step whose pair failed the test: the store is as it was
TRFailedPairDropped ==
    /\ AfterPass /\ tr.k = 2 /\ tr.accepted /\ tr.sk_TR # VZero(2)
    /\ ~GtEps(Dot(VSub(tr.yk, tr.Bk_skTR), tr.sk_TR),
              RMul(BroadcastNormSq(tr.yk, tr.Bksk), NormSq(tr.sk_TR)))
    /\ tr.S = tr.pre.S /\ tr.Y = tr.pre.Y

\* C11 as claimed: when the strong-Wolfe search finds no step the Armijo
\* backtracking search is tried next
C11_ArmijoAfterWolfe ==
    [][(ls.pc = "wolfe" /\ ls'.search = "failed") => ls'.pc = "armijo"]_vars

\* C11: with lineSearch = 'wolfe', when neither line_search_wolfe1 nor
\* line_search_wolfe2 finds a step the main loop is left at once, without an
\* Armijo search and with the iterate unchanged, and the run ends with status 2
C11_WolfeFailureEndsRun ==
    /\ [][(ls.pc = "wolfe" /\ ls'.search = "failed") =>
            /\ ls'.pc = "break" /\ ls'.warnflag = 2
            /\ ls'.xk = ls.xk /\ ls'.k = ls.k]_vars
    /\ []((ls.pc = "done" /\ ls.search = "failed") =>
            ls.warnflag = 2 /\ ls.xk = ls.pre.xk)
\* a run ended by a failed strong-Wolfe search in its second iteration
C11_Witness ==
    ls.pc = "done" /\ ls.lineSearch = "wolfe" /\ ls.search = "failed" /\ ls.k = 1

\* C12: whenever rootFinder returns, it returns a root (the larger real root,
\* which is non-negative); without such a root it does not return normally
C12_ReturnsRootOrFails ==
    cg.pc = "returned" => cg.ret.kind = "root" /\ SurdGe0(cg.ret.x)

\* C13: at the top of every pass of the loop of CG_Steinhaug_matFree, where
\* the boundary quadratic may be solved, ||zOld|| < deltak and dOld is not
\* zero; rootFinder then finds a root, so the call never ends in the TypeError
\* of a missing root nor with a step that is not finite
C13_BoundaryRootExists ==
    /\ (cg.pc = "loop" /\ cg.Minv # <<>>) =>
          /\ RLt(NormSq(cg.zOld), RSq(cg.deltak))
          /\ cg.dOld # VZero(Len(cg.dOld))
    /\ cg.pc \in {"return", "raise"} => cg.exit \notin {"TypeError", "nonfinite"}
\* the boundary quadratic solved in the second pass, from an iterate that is
\* not the origin
C13_Witness ==
    /\ cg.pc = "return" /\ cg.exit \in {"boundary", "neg_curvature"}
    /\ cg.j = 1 /\ cg.zOld # VZero(Len(cg.zOld))

\* C14: a run that ends after a step that left the gradient norm, the
\* function value or the iterate nan ends with status 3
C14_NaNEndsWithStatus3 ==
    (/\ ls.pc = "done" /\ ls.k >= 1
     /\ XIsNaN(ls.gnorm) \/ XIsNaN(ls.old_fval) \/ XVHasNaN(ls.xk)) =>
        ls.warnflag = 3

\* C15: a driver whose f(x0) is not a scalar, or is nan or infinite, raises
\* before any iteration is executed
C15_BadStartRaises ==
    (ls.pc \notin {"idle", "call"} /\ (ls.fshape # "scalar" \/ XSpecial(ls.f0))) =>
        ls.pc = "raise" /\ ls.k = 0 /\ ls.search = "none"

\* C15: f(x0) an array of several elements ends the call in an exception
\* before any iteration; ValueError is raised for nothing else, so a nan or
\* infinite f(x0) enters the loop
C15_ArrayStartRaises ==
    /\ (ls.pc \notin {"idle", "call"} /\ ls.fshape = "array") =>
            /\ ls.pc = "raise" /\ ls.exc \in {"ValueError", "NameError"}
            /\ ls.k = 0 /\ ls.search = "none"
    /\ (ls.pc = "raise" /\ ls.exc = "ValueError") => ls.fshape = "array"
    /\ (ls.pc = "raise" /\ ls.exc = "NameError") => ls.alg = "naq" /\ ~ls.names
C15_Witness == ls.pc = "raise" /\ ls.exc = "ValueError" /\ ls.fshape = "array"
\* a run that started from a nan f(x0) and returned a result
C15_NaNStartReturns == ls.pc = "done" /\ XIsNaN(ls.f0)

\* C16: a run that ends with status 1 returns the iterate with the lowest
\* function value: f there is no more than f at the iterate before it and
\* at x0
C16_ReturnsBestIterate ==
    (ls.pc = "done" /\ ls.warnflag = 1
     /\ ~XSpecial(ls.fx) /\ ~XSpecial(ls.pre.fx) /\ ~XSpecial(ls.f0)) =>
        XLe(ls.fx, ls.pre.fx) /\ XLe(ls.fx, ls.f0)

\* C16: a loop left because k reached maxiter ends with status 1, and the x
\* returned is xk, the iterate of the last step taken
C16_MaxiterReturnsLast ==
    /\ [][(ls.pc = "loop" /\ ls.k >= ls.maxiter) =>
            (ls'.pc = "done" /\ ls'.warnflag = 1 /\ ls'.xk = ls.xk)]_vars
    /\ []((ls.pc = "done" /\ ls.warnflag = 1) =>
            /\ ls.k = ls.maxiter /\ ls.k = ls.pre.k + 1
            /\ ls.xk = XVAdd(ls.pre.xk, IF ls.alg = "lbfgs" THEN ls.sk ELSE ls.vk))
\* the last iterate is returned with status 1 although f was lower before
C16_Witness ==
    /\ ls.pc = "done" /\ ls.warnflag = 1 /\ ls.k = ls.maxiter
    /\ ls.search = "found" /\ ~XSpecial(ls.fx) /\ ~XSpecial(ls.pre.fx)
    /\ XLt(ls.pre.fx, ls.fx)

\* C17: a result with status 0 has a gradient norm that is not above gtol
C17_SuccessMeansSmallGradient ==
    (ls.pc = "done" /\ ls.warnflag = 0) => ~AboveGtol(ls.gnorm) /\ ~XIsNaN(ls.gnorm)
\* status 0 is returned for a gradient norm above gtol only by the break of
\* _minimize_lbfgs at "old_fval < etol"
C17_SuccessOrTarget ==
    (ls.pc = "done" /\ ls.warnflag = 0) =>
        /\ ls.k < ls.maxiter
        /\ ~XIsNaN(ls.gnorm) /\ ~XIsNaN(ls.old_fval) /\ ~XVHasNaN(ls.xk)
        /\ \/ XLe(ls.gnorm, Xgtol)
           \/ ls.alg = "lbfgs" /\ ls.etol # None /\ FLt(ls.old_fval, ls.etol)

\* C18: in every pass of a driver with adaptive momentum 0 <= mu <= mu_clip
\* (for _minimize_mosr1, the default 0.95 of mu_clip)
C18_MomentumClipped ==
    MUPassed => 0 <= cg.mu[1] /\ cg.mu[1] <= cg.mu_clip
\* the drivers that clip keep mu within [0, mu_clip]
C18_ClippedDrivers ==
    (MUPassed /\ cg.alg # "mosr1") =>
        0 <= cg.mu[1] /\ cg.mu[2] <= cg.mu_clip

\* C19: the mu computed from theta_k = 1 is exactly 0, whatever gamma, the
\* driver and its clip are, so the point xk + mu*vk of that pass is xk
C19_FirstMomentumZero ==
    (MUPassed /\ cg.used = <<ThetaGrid, ThetaGrid>>) => cg.mu = <<0, 0>>
C19_Witness ==
    /\ MUPassed /\ cg.used = <<ThetaGrid, ThetaGrid>> /\ cg.mu = <<0, 0>>
    /\ cg.alg = "naq" /\ cg.gamma = <<1, 2>> /\ cg.n = 1
\* _minimize_naq with a fixed mu: in the first pass vk is 0, so xmuv is x0
\* and the gradient used is the one taken at x0
FirstGradientAtStart ==
    (ls.pc \in {"armijo", "wolfe", "move"} /\ ls.alg = "naq" /\ ls.k = 0) =>
        /\ ls.xmuv = ls.xk /\ ls.xk = ls.pre.xk
        /\ ls.vk = XVZero(Len(ls.xk))

\* C20: with return_all the result's allvecs is x0 followed by the iterate of
\* each completed iteration: nit + 1 vectors, the last one the x returned
C20_AllvecsIsTheHistory ==
    (ls.pc = "done" /\ ls.retall) =>
        /\ Len(ls.allvecs) = ls.k + 1
        /\ ls.allvecs[1] = XVZero(2)
        /\ ls.allvecs[Len(ls.allvecs)] = ls.xk
\* _minimize_naq keeps the history
NaqAllvecsIsTheHistory ==
    (ls.pc = "done" /\ ls.retall /\ ls.alg = "naq") =>
        /\ Len(ls.allvecs) = ls.k + 1
        /\ ls.allvecs[1] = XVZero(2)
        /\ ls.allvecs[Len(ls.allvecs)] = ls.xk
        /\ ls.k > ls.pre.k => ls.allvecs[ls.k] = ls.pre.xk

\* C21: a supplied callback has been called once for each completed
\* iteration, the last time with the current point: the number of calls is nit
C21_CallbackPerIteration ==
    (ls.pc \in {"loop", "break", "done"} /\ ls.callback) =>
        /\ Len(ls.calls) = ls.k
        /\ ls.k > 0 => ls.calls[ls.k] = ls.xk
\* _minimize_naq calls the callback in each pass
NaqCallbackPerIteration ==
    (ls.pc \in {"loop", "break", "done"} /\ ls.callback /\ ls.alg = "naq") =>
        /\ Len(ls.calls) = ls.k
        /\ ls.k > 0 => ls.calls[ls.k] = ls.xk

\* C22: each of the two calls, which are never given the same list, starts
\* with an empty errPlot, and its errPlot holds only what the call itself
\* recorded
C22_RunsShareNothing ==
    cg.pc = "runs" =>
        \A i \in Runs :
            cg.run[i].pc # "idle" =>
                /\ cg.run[i].seen = 0
                /\ \A j \in DOMAIN errPlot(cg, i) : errPlot(cg, i)[j][1] = i
\* a call that is given its own list shares nothing
OwnListIsPrivate ==
    cg.pc = "runs" =>
        \A i \in Runs :
            (cg.run[i].pc # "idle" /\ cg.run[i].passed) =>
                /\ cg.run[i].seen = 0
                /\ errPlot(cg, i) = [j \in 1..(cg.run[i].k + 1) |-> <<i, j - 1>>]

\* C23: on a strictly convex quadratic of n = 2 variables, with m >= n, the
\* run has reached the minimizer (the gradient is 0) after at most n passes
C23_QuadraticTermination ==
    (ls.pc = "done" /\ ls.m >= 2 /\ ls.k >= 2) => QGrad(ls.quad, ls.xk) = XVZero(2)
\* the direction of the second pass points from x1 at the minimizer, so that
\* an exact line search along it would reach the minimizer
SecondDirectionAimsAtMinimizer ==
    (ls.pc = "armijo" /\ ls.m >= 2 /\ ls.k = 1 /\ ls.line1 = 0) =>
        XMul(ls.pk[1], XMul(ls.quad.a[1], ls.gfk[2]))
            = XMul(ls.pk[2], XMul(ls.quad.a[2], ls.gfk[1]))

\* C24: the pass of iteration k reads exactly the min(k, m) most recently
\* stored pairs and no others
C24_ReadsMostRecentPairs ==
    (ls.pc = "armijo" /\ ls.alg = "lbfgs") =>
        PairsRead(ls.k, ls.m)
            = (Len(ls.sk_vec) - Min(ls.k, ls.m) + 1)..Len(ls.sk_vec)
\* the last n entries of a list
Recent(S, n) == SubSeq(S, Len(S) - n + 1, Len(S))
\* the direction of a pass is the two-loop recursion over the min(k, m) most
\* recently stored pairs
DirectionFromRecentPairs ==
    (ls.pc = "armijo" /\ ls.alg = "lbfgs") =>
        ls.pk = LDirectionOf(ls.gfk, Recent(ls.sk_vec, Min(ls.k, ls.m)),
                             Recent(ls.yk_vec, Min(ls.k, ls.m)), ls.k, ls.m)
\* while no more than m pairs are stored, the pass reads every stored pair
ReadsWholeStoreUpToM ==
    (ls.pc = "armijo" /\ ls.alg = "lbfgs" /\ ls.k <= ls.m) =>
        PairsRead(ls.k, ls.m) = 1..Len(ls.sk_vec)

\* C25: in every variant the y of a pair that a pass stores is the raw
\* gradient difference plus zeta * gnorm * s, never an undamped or
\* differently damped value
C25_StoredPairsZetaDamped ==
    (AfterPass /\ tr.appended) =>
        tr.yk = VAdd(tr.damp.raw,
                     VScale(RMul(Zeta(tr.sk_TR, tr.damp.raw, tr.damp.gnorm),
                                 tr.damp.gnorm), tr.sk_TR))
\* _minimize_sr1n stores the zeta-damped y
Sr1nStoresZetaDamped ==
    (AfterPass /\ tr.alg = "sr1n" /\ tr.appended) =>
        tr.yk = VAdd(tr.damp.raw,
                     VScale(RMul(Zeta(tr.sk_TR, tr.damp.raw, tr.damp.gnorm),
                                 tr.damp.gnorm), tr.sk_TR))
\* _minimize_sr1 stores the raw difference, _minimize_mosr1 y + 0.1 * s
OtherDriversStoreOtherwise ==
    (AfterPass /\ tr.appended) =>
        /\ tr.alg = "sr1" => tr.yk = tr.damp.raw
        /\ tr.alg = "mosr1" => tr.yk = VAdd(tr.damp.raw, VScale(<<1, 10>>, tr.sk_TR))

\* C26: every pair in the store has for s the displacement
\* x_{i+1} - (x_i + mu * v_i) of the pass that produced it and for y a
\* difference of two gradients, the pairs of rejected steps and of the
\* sampling of the first pass included
C26_PairsAreDisplacements ==
    /\ (AfterPass /\ tr.appended) => tr.S[Len(tr.S)] = VSub(tr.xk, tr.xmu)
    /\ (tr.pc = "step" /\ tr.k = 1) =>
          \A i \in 1..tr.sampled :
             \E p \in Probes : /\ tr.S[i] = VSub(VAdd(tr.xk, p.r), tr.xk)
                               /\ tr.Y[i] = VSub(p.y, tr.gx)
\* the pair of an accepted step has s = x_{i+1} - (x_i + mu * v_i)
AcceptedPairsAreDisplacements ==
    (AfterPass /\ tr.appended /\ tr.accepted) =>
        tr.S[Len(tr.S)] = VSub(tr.xk, tr.xmu)
\* a rejected step of _minimize_mosr1 whose pair is stored although x has not
\* moved
RejectedStepStored ==
    /\ AfterPass /\ tr.alg = "mosr1" /\ tr.appended /\ ~tr.accepted
    /\ tr.xk = tr.pre.xk
    /\ tr.S[Len(tr.S)] = tr.sk_TR /\ tr.sk_TR # VSub(tr.xk, tr.xmu)
\* a sampled pair is (xk + Stemp[:, i], gradient at xk + Stemp[:, i])
SampledPairsAreProbes ==
    (tr.pc = "step" /\ tr.k = 1) =>
        \A i \in 1..tr.sampled :
           \E p \in Probes : tr.S[i] = VAdd(tr.xk, p.r) /\ tr.Y[i] = p.y

C28_ThetaStrictlyDecreasing ==
    (MUPassed /\ cg.n >= 1 /\ cg.gamma[1] > 0) => cg.theta_k[1] < cg.used[2]
\* C28 as amended: for 0 < gamma <= 1 the recurrence started from 1 never
\* increases and theta stays at or above sqrt(gamma), its fixed point in
\* (0, 1] (to the step of the grid), so theta does not tend to 0
C28_ThetaStaysAboveRootGamma ==
    (MUPassed /\ cg.n >= 1 /\ cg.gamma[1] > 0) =>
        /\ cg.theta_k[1] <= cg.used[1] /\ cg.theta_k[2] <= cg.used[2]
        /\ SumLe(<<<<cg.gamma[1], ThetaGrid, ThetaGrid>>>>,
                 <<<<cg.theta_k[1] + 1, cg.theta_k[1] + 1, cg.gamma[2]>>>>)
\* after MaxMomentum passes with gamma = 1/2 theta is still above 0.7071
C28_Witness ==
    /\ MUPassed /\ cg.alg = "naq" /\ cg.gamma = <<1, 2>> /\ cg.n = MaxMomentum
    /\ cg.theta_k[1] >= 70710 /\ cg.theta_k[2] <= 70712
\* with gamma = 1 theta is 1 in every pass
ThetaFixedAtOne ==
    (MUPassed /\ cg.gamma = <<1, 1>>) => cg.theta_k = <<ThetaGrid, ThetaGrid>>
\* with gamma = 0 theta has no positive lower bound of that kind: it falls
\* below 0.03 within MaxMomentum passes
ThetaSmallWithoutGamma ==
    /\ MUPassed /\ cg.gamma = <<0, 1>> /\ cg.theta_k[2] < 3000

\* C29: however a run ends, the function value of the result (fval =
\* old_fval) is the value of f at the returned x
C29_FvalAtReturnedPoint ==
    ls.pc = "done" => ls.old_fval = ls.fx
\* a run of _minimize_naq that ends on a failed Armijo search returns the
\* value of the last rejected trial point with the x it did not leave
NaqReturnsRejectedValue ==
    /\ ls.pc = "done" /\ ls.alg = "naq" /\ ls.lineSearch = "armijo"
    /\ ls.warnflag = 2 /\ ls.xk = ls.pre.xk /\ ls.old_fval # ls.fx
\* a run of _minimize_lbfgs whose last search ran out returns the value of the
\* iterate before the returned x
LbfgsReturnsEarlierValue ==
    /\ ls.pc = "done" /\ ls.alg = "lbfgs" /\ ls.k = 1
    /\ ls.xk # ls.pre.xk /\ ls.old_fval = ls.f0 /\ ls.old_fval # ls.fx
\* a run whose last pass accepted its step returns the value at the returned x
AcceptedStepValueReturned ==
    (ls.pc = "done" /\ ls.search = "found") => ls.old_fval = ls.fx

\* C30: the status of a result is 2 if a failed search or a non-finite
\* function value was flagged, else 1 if the count is >= maxiter, else 3 for
\* a nan, else 0; a run whose gradient norm reaches gtol in the pass that
\* brings the count to maxiter has status 1
C30_StatusPriority ==
    ls.pc = "done" =>
        /\ ls.warnflag = 2 =>
              /\ ls.alg = "naq"
              /\ ls.search \in {"failed", "exhausted"} \/ XSpecial(ls.old_fval)
        /\ (ls.alg = "naq" /\ ls.search \in {"failed", "exhausted"}) => ls.warnflag = 2
        /\ (ls.alg = "naq" /\ ls.k >= 1 /\ XSpecial(ls.old_fval)
            /\ (XIsNaN(ls.gnorm) \/ AboveGtol(ls.gnorm))) => ls.warnflag = 2
        /\ ls.warnflag # 2 =>
              ls.warnflag = IF ls.k >= ls.maxiter THEN 1
                            ELSE IF XIsNaN(ls.gnorm) \/ XIsNaN(ls.old_fval)
                                    \/ XVHasNaN(ls.xk) THEN 3
                            ELSE 0
        /\ (ls.warnflag # 2 /\ ls.k >= ls.maxiter /\ ~XIsNaN(ls.gnorm)
            /\ ~AboveGtol(ls.gnorm)) => ls.warnflag = 1
\* a run whose gradient norm is within gtol after the pass that made the
\* count maxiter, with status 1
C30_Witness ==
    /\ ls.pc = "done" /\ ls.k = ls.maxiter /\ ~XIsNaN(ls.gnorm)
    /\ ~AboveGtol(ls.gnorm) /\ ls.warnflag = 1
\* a run flagged for a non-finite value in the pass that made the count
\* maxiter, with status 2
FlagBeforeCount ==
    /\ ls.pc = "done" /\ ls.k = ls.maxiter /\ ls.search = "found"
    /\ XSpecial(ls.old_fval) /\ ls.alg = "naq" /\ ls.warnflag = 2

=============================================================================
